---------------------------- MODULE Spec2Model ----------------------------
(***************************************************************************)
(* A model of nut.js' ScreenClass (src/lib/screen.class.ts, lines 1-671):  *)
(* find, findAll, waitFor, on and highlight, with the providers (screen,   *)
(* finder, window finder), the hook callbacks and the caller as the        *)
(* environment.  One call of find/findAll is followed from await to await: *)
(* the code between two awaits runs to completion on the JS event loop and *)
(* is one action; what an awaited provider or hook answers is chosen       *)
(* nondeterministically when the continuation runs.                        *)
(***************************************************************************)
EXTENDS Integers, Sequences, FiniteSets, TLC

(***************************************************************************)
(* Bounds of the model.                                                    *)
(***************************************************************************)
\* Largest coordinate of a search region the caller passes; the screen is
\* MaxCoord x MaxCoord.
MaxCoord == 3
\* on() is called at most MaxHooks times.
MaxHooks == 2
\* findMatches / the window finder return at most MaxResults results.
MaxResults == 2
TickMs == 500             \* the step of the clock
ShortTimeoutMs == 1500    \* a timeoutMs a caller passes
LongIntervalMs == 1000    \* an updateInterval a caller passes

(***************************************************************************)
(* Program constants.                                                      *)
(***************************************************************************)
\* config.confidence: 0.99, in percent.
DefaultConfidence == 99
\* config.highlightDurationMs
DefaultHighlightDurationMs == 500
\* config.highlightOpacity: 0.25, in percent.
DefaultHighlightOpacity == 25
\* waitFor: timeoutMs ?? 5000, updateInterval ?? 500
DefaultTimeoutMs == 5000
DefaultUpdateIntervalMs == 500

(***************************************************************************)
(* JS values.  A number is a record so that NaN is a number no comparison  *)
(* holds of; an optional value (undefined or a value) is a sequence of     *)
(* length 0 or 1.                                                          *)
(***************************************************************************)
Num(v) == [nan |-> FALSE, v |-> v]
NaN == [nan |-> TRUE, v |-> 0]

\* a < b, a > b and a + b of JS: false, respectively NaN, when an operand is NaN.
JsLt(a, b) == ~a.nan /\ ~b.nan /\ a.v < b.v
JsGt(a, b) == ~a.nan /\ ~b.nan /\ a.v > b.v
JsAdd(a, b) == IF a.nan \/ b.nan THEN NaN ELSE Num(a.v + b.v)
JsIsNaN(a) == a.nan

None == <<>>
Some(x) == <<x>>
\* opt ?? default
Coalesce(opt, default) == IF opt = None THEN default ELSE opt[1]

Region(l, t, w, h) == [left |-> l, top |-> t, width |-> w, height |-> h]

\* An error value: a thrown Error object or a string a provider rejects with.
\* msg is the message as a sequence of its fragments.
Err(msg) == [type |-> "Error", msg |-> msg]
Str(msg) == [type |-> "string", msg |-> msg]
NoError == [type |-> "none", msg |-> <<>>]

\* `${e}`: String(e) is "Error: <message>" for an Error object and the string
\* itself for a string.
stringify(e) == IF e.type = "Error" THEN <<"Error: ">> \o e.msg ELSE e.msg

(***************************************************************************)
(* validateSearchRegion: the message of the Error it throws, or None when  *)
(* the region passes.  (The interpolated region text is left out of the    *)
(* message.)                                                               *)
(***************************************************************************)
validateSearchRegion_NoSizeCheck(search, screen) ==
    IF \/ JsLt(search.left, Num(0)) \/ JsLt(search.top, Num(0))
       \/ JsLt(search.width, Num(0)) \/ JsLt(search.height, Num(0))
    THEN Some(Err(<<"Negative values in search region">>))
    ELSE IF \/ JsIsNaN(search.left) \/ JsIsNaN(search.top)
            \/ JsIsNaN(search.width) \/ JsIsNaN(search.height)
    THEN Some(Err(<<"NaN values in search region">>))
    ELSE IF \/ JsGt(JsAdd(search.left, search.width), screen.width)
            \/ JsGt(JsAdd(search.top, search.height), screen.height)
    THEN Some(Err(<<"Search region extends beyond screen boundaries">>))
    ELSE None

validateSearchRegion(search, screen) ==
    IF \/ JsLt(search.left, Num(0)) \/ JsLt(search.top, Num(0))
       \/ JsLt(search.width, Num(0)) \/ JsLt(search.height, Num(0))
    THEN Some(Err(<<"Negative values in search region">>))
    ELSE IF \/ JsIsNaN(search.left) \/ JsIsNaN(search.top)
            \/ JsIsNaN(search.width) \/ JsIsNaN(search.height)
    THEN Some(Err(<<"NaN values in search region">>))
    ELSE IF JsLt(search.width, Num(2)) \/ JsLt(search.height, Num(2))
    THEN Some(Err(<<"Search region is not large enough. Must be at least two pixels in both width and height.">>))
    ELSE IF \/ JsGt(JsAdd(search.left, search.width), screen.width)
            \/ JsGt(JsAdd(search.top, search.height), screen.height)
    THEN Some(Err(<<"Search region extends beyond screen boundaries">>))
    ELSE None

(***************************************************************************)
(* Needles.  obj is the identity of the JS object (the Map of hooks is     *)
(* keyed by it), id its id field.                                          *)
(***************************************************************************)
ImageNeedle == [obj |-> "imageObject", kind |-> "image", id |-> "image"]
TextNeedle == [obj |-> "textObject", kind |-> "text", id |-> "text"]
WindowNeedle == [obj |-> "windowObject", kind |-> "window", id |-> "window"]
\* A ColorQuery: not an input this find accepts.
ColorNeedle == [obj |-> "colorObject", kind |-> "color", id |-> "color"]

\* Another Image object with the id of ImageNeedle: the same file loaded again.
ImageCopy == [obj |-> "imageObject2", kind |-> "image", id |-> "image"]

SupportedNeedles == {ImageNeedle, TextNeedle, WindowNeedle}
\* Needles of which two are different objects with one id.
KeyNeedles == {ImageNeedle, ImageCopy, TextNeedle}
Needles == SupportedNeedles \cup {ColorNeedle}

isImage(n) == n.kind = "image"
isTextQuery(n) == n.kind = "text"
isWindowQuery(n) == n.kind = "window"

(***************************************************************************)
(* What the environment may answer.                                        *)
(***************************************************************************)
\* screenSize() of the screen provider.
Screen == Region(Num(0), Num(0), Num(MaxCoord), Num(MaxCoord))

Coords == {NaN} \cup {Num(v) : v \in -1..MaxCoord}
\* Every region with coordinates in Coords.
AllRegions == [left : Coords, top : Coords, width : Coords, height : Coords]
\* A region inside the screen, away from its origin.
InnerRegion == Region(Num(1), Num(1), Num(MaxCoord - 1), Num(MaxCoord - 1))
\* A region that leaves the screen on the x axis.
OutsideRegion == Region(Num(MaxCoord - 1), Num(0), Num(2), Num(MaxCoord))
SampleRegions == {InnerRegion, OutsideRegion}

\* What a finder may answer with: a weak match and a good one, at different
\* places (relative to the haystack) and of different sizes.
MatchResults == {[confidence |-> 80, location |-> Region(Num(0), Num(1), Num(2), Num(1))],
                 [confidence |-> 99, location |-> Region(Num(1), Num(0), Num(1), Num(2))]}
WindowHandles == {7, 8}

\* params: { searchRegion?, confidence? }
ParamsOver(regions) ==
    [searchRegion : {None} \cup {Some(r) : r \in regions},
     confidence : {None, Some(80)}]
NoParams == [searchRegion |-> None, confidence |-> None]

ScreenFailure == Err(<<"screen provider failed">>)
FinderFailure == Str(<<"Search failed.">>)
HookFailure == Err(<<"hook failed">>)
HighlightFailure == Err(<<"highlight failed">>)

(***************************************************************************)
(* State.                                                                  *)
(***************************************************************************)
VARIABLES
    findHooks,      \* this.findHooks: the Map from needle object to its callbacks
    onLog,          \* the calls of on that registered a callback, in order
    onError,        \* what the last call of on threw, NoError when it returned
    config,         \* this.config
    call,           \* the call of a method in progress, or the last one
    providerCalls,  \* the provider methods that call has invoked, in order
    highlightCalls, \* the arguments of its highlightScreenRegion calls
    hookLog,        \* the hook invocations of that call: start, end, throw
    wait,           \* the waitFor call in progress, or the last one
    signal,         \* params.abort of that call: "none", "armed" or "aborted"
    now             \* the time in ms since waitFor was called

waitVars == <<wait, signal, now>>
vars == <<findHooks, onLog, onError, config, call, providerCalls, highlightCalls, hookLog,
          wait, signal, now>>

IdleCall ==
    [op |-> "none", pc |-> "idle", needle |-> ColorNeedle, params |-> NoParams,
     minMatch |-> None, screenSize |-> None, searchRegion |-> None,
     matchRequest |-> None, matchResults |-> <<>>, windows |-> <<>>,
     resultRegions |-> <<>>, possibleHooks |-> <<>>, hook |-> 0, result |-> 0,
     status |-> "pending", value |-> <<>>, error |-> NoError,
     failedAt |-> "", cause |-> NoError, hooksAtCall |-> <<>>,
     background |-> 0, settledAt |-> 0, autoHighlight |-> None,
     arg |-> None, file |-> None, grabs |-> <<>>, image |-> None,
     outputPath |-> None, stores |-> <<>>, other |-> None]

IdleWait ==
    [pc |-> "idle", needle |-> ColorNeedle, params |-> NoParams,
     timeoutMs |-> None, updateInterval |-> None,
     maxDurationMs |-> 0, updateIntervalMs |-> 0,
     attempts |-> 0, completed |-> 0, successes |-> 0,
     inFlight |-> FALSE, retryAt |-> None, listening |-> FALSE,
     status |-> "pending", value |-> <<>>, error |-> NoError, settledAt |-> 0,
     outcome |-> "none", abortedAt |-> None, abortPc |-> ""]

Init ==
    /\ findHooks = <<>>
    /\ onLog = <<>>
    /\ onError = NoError
    /\ config = [confidence |-> DefaultConfidence,
                 autoHighlight |-> FALSE,
                 highlightDurationMs |-> DefaultHighlightDurationMs,
                 highlightOpacity |-> DefaultHighlightOpacity]
    /\ call = IdleCall
    /\ providerCalls = <<>>
    /\ highlightCalls = <<>>
    /\ hookLog = <<>>
    /\ wait = IdleWait
    /\ signal = "none"
    /\ now = 0

(***************************************************************************)
(* The hook registry.                                                      *)
(***************************************************************************)
\* Map.get: undefined (None) for a key that was never set.
MapGet(m, k) == IF k \in DOMAIN m THEN Some(m[k]) ELSE None
\* Map.set
MapSet(m, k, v) == [x \in DOMAIN m \cup {k} |-> IF x = k THEN v ELSE m[x]]

\* A registry keyed by the id of the needle: the callbacks registered for any
\* needle with the id of the input, in the order of registration.
getHooksForInput_ById(input) ==
    LET sameId == {n.obj : n \in {m \in KeyNeedles \cup Needles : m.id = input.id}}
        entries == SelectSeq(onLog, LAMBDA e : e.obj \in sameId)
    IN IF isImage(input) \/ isTextQuery(input) \/ isWindowQuery(input)
       THEN IF entries = <<>> THEN None
            ELSE Some([k \in 1..Len(entries) |-> entries[k].callback])
       ELSE Some(<<>>)

getHooksForInput(input) ==
    IF isImage(input) \/ isTextQuery(input)
    THEN MapGet(findHooks, input.obj)
    ELSE IF isWindowQuery(input)
    THEN MapGet(findHooks, input.obj)
    ELSE Some(<<>>)

RECURSIVE SumLen(_, _)
SumLen(m, keys) ==
    IF keys = {} THEN 0
    ELSE LET k == CHOOSE x \in keys : TRUE
         IN Len(m[k]) + SumLen(m, keys \ {k})
\* The number of callbacks registered so far.
Registered == SumLen(findHooks, DOMAIN findHooks)

\* on setting the list of the needle to the new callback alone.
On_Replace(searchInput, callback) ==
    /\ Registered < MaxHooks
    /\ IF ~isImage(searchInput) /\ ~isTextQuery(searchInput) /\ ~isWindowQuery(searchInput)
       THEN /\ onError' = Err(<<"on requires an Image, a text query or a window query, but received ", searchInput.id>>)
            /\ UNCHANGED <<findHooks, onLog>>
       ELSE /\ findHooks' = MapSet(findHooks, searchInput.obj, <<callback>>)
            /\ onLog' = Append(onLog, [obj |-> searchInput.obj, callback |-> callback])
            /\ onError' = NoError
    /\ UNCHANGED <<waitVars, config, call, providerCalls, highlightCalls, hookLog>>

\* on storing the callback before it looks at the kind of needle.
On_RegisterFirst(searchInput, callback) ==
    /\ Registered < MaxHooks
    /\ LET existingHooks == Coalesce(MapGet(findHooks, searchInput.obj), <<>>)
       IN /\ findHooks' = MapSet(findHooks, searchInput.obj, existingHooks \o <<callback>>)
          /\ onLog' = Append(onLog, [obj |-> searchInput.obj, callback |-> callback])
    /\ onError' = IF ~isImage(searchInput) /\ ~isTextQuery(searchInput) /\ ~isWindowQuery(searchInput)
                  THEN Err(<<"on requires an Image, a text query or a window query, but received ", searchInput.id>>)
                  ELSE NoError
    /\ UNCHANGED <<waitVars, config, call, providerCalls, highlightCalls, hookLog>>

\* on(searchInput, callback).  The callback of the k-th registration is k.
On(searchInput, callback) ==
    /\ Registered < MaxHooks
    /\ IF ~isImage(searchInput) /\ ~isTextQuery(searchInput) /\ ~isWindowQuery(searchInput)
       THEN /\ onError' = Err(<<"on requires an Image, a text query or a window query, but received ", searchInput.id>>)
            /\ UNCHANGED <<findHooks, onLog>>
       ELSE LET existingHooks == Coalesce(MapGet(findHooks, searchInput.obj), <<>>)
            IN /\ findHooks' = MapSet(findHooks, searchInput.obj, existingHooks \o <<callback>>)
               /\ onLog' = Append(onLog, [obj |-> searchInput.obj, callback |-> callback])
               /\ onError' = NoError
    /\ UNCHANGED <<waitVars, config, call, providerCalls, highlightCalls, hookLog>>

\* The values the caller gives config.confidence, in percent.
Confidences == {90, DefaultConfidence}

\* The caller sets config.confidence.
SetConfidence(c) ==
    /\ config.confidence # c
    /\ config' = [config EXCEPT !.confidence = c]
    /\ UNCHANGED <<waitVars, findHooks, onLog, onError, call, providerCalls, highlightCalls, hookLog>>

\* The caller sets config.autoHighlight.
SetAutoHighlight(b) ==
    /\ config.autoHighlight # b
    /\ config' = [config EXCEPT !.autoHighlight = b]
    /\ UNCHANGED <<waitVars, findHooks, onLog, onError, call, providerCalls, highlightCalls, hookLog>>

(***************************************************************************)
(* How a call settles.                                                     *)
(***************************************************************************)
Resolve(c, v) ==
    [c EXCEPT !.pc = "settled", !.status = "resolved", !.value = v, !.settledAt = now]
\* The promise rejects with err; at and cause record the step that failed and
\* what it failed with.
Reject(c, at, cause, err) ==
    [c EXCEPT !.pc = "settled", !.status = "rejected", !.error = err,
              !.failedAt = at, !.cause = cause, !.settledAt = now]

WrapError_NoStringify(needle, e) ==
    Err(<<"Searching for ", needle.id, " failed. Reason: '">> \o e.msg \o <<"'">>)

\* catch (e) { throw new Error(`Searching for ${needle.id} failed. Reason: '${e}'`) }
WrapError(needle, e) ==
    Err(<<"Searching for ", needle.id, " failed. Reason: '">> \o stringify(e) \o <<"'">>)

Catch_Rethrow(c, at, e) == Reject(c, at, e, e)

\* The catch block around the body of find / findAll.
Catch(c, at, e) == Reject(c, at, e, WrapError(c.needle, e))

(***************************************************************************)
(* Code that find and findAll call and that lies outside this file.        *)
(***************************************************************************)
\* createMatchRequest: the MatchRequest {haystack, needle, confidence} of a search.
createMatchRequest(needle, searchRegion, minMatch, screenImage) ==
    [haystack |-> screenImage, needle |-> needle, confidence |-> minMatch]
\* getMatchResult / getMatchResults dispatch the request to the finder of the
\* needle's kind and hand back what that finder answers.
getMatchResult(matchRequest) ==
    IF isImage(matchRequest.needle) THEN "imageFinder.findMatch" ELSE "textFinder.findMatch"
getMatchResults(matchRequest) ==
    IF isImage(matchRequest.needle) THEN "imageFinder.findMatches" ELSE "textFinder.findMatches"
\* new Window(providerRegistry, windowHandle)
Window(windowHandle) == [handle |-> windowHandle]
\* What grabScreenRegion(region) resolves with: the image of that region.
ImageOf(region) == [grabbed |-> region]


(***************************************************************************)
(* find(searchInput, params)                                               *)
(***************************************************************************)
\* find is called and suspends at `await searchInput`.
StartFind(searchInput, params) ==
    /\ call' = [IdleCall EXCEPT !.op = "find", !.pc = "awaitNeedle",
                                !.needle = searchInput, !.params = params,
                                !.hooksAtCall = Coalesce(getHooksForInput(searchInput), <<>>)]
    /\ providerCalls' = <<>>
    /\ highlightCalls' = <<>>
    /\ hookLog' = <<>>
    /\ UNCHANGED <<findHooks, onLog, onError, config>>

\* The caller calls find.
FindCall(searchInput, params) ==
    /\ call.pc = "idle" /\ wait.pc = "idle"
    /\ StartFind(searchInput, params)
    /\ UNCHANGED waitVars

\* find asking the screen for its size before it looks at the kind of needle.
FindCheckNeedle_ScreenSizeFirst ==
    /\ call.op = "find" /\ call.pc = "awaitNeedle"
    /\ LET needle == call.needle
       IN IF ~isImage(needle) /\ ~isTextQuery(needle) /\ ~isWindowQuery(needle)
          THEN LET e == Err(<<"find requires an Image, a text query or a window query, but received ", needle.id>>)
               IN /\ call' = Reject(call, "needle", e, e)
                  /\ UNCHANGED providerCalls
          ELSE IF isWindowQuery(needle)
          THEN /\ call' = [call EXCEPT !.pc = "windowFinder"]
               /\ providerCalls' = providerCalls \o <<"screenSize", "windowFinder.findMatch">>
          ELSE /\ call' = [call EXCEPT !.pc = "screenSize",
                              !.minMatch = Some(Coalesce(call.params.confidence, config.confidence))]
               /\ providerCalls' = Append(providerCalls, "screenSize")
    /\ UNCHANGED <<waitVars, findHooks, onLog, onError, config, highlightCalls, hookLog>>

\* The needle check, then the window finder's findMatch or getFindParameters
\* up to its screenSize() call.
FindCheckNeedle ==
    /\ call.op = "find" /\ call.pc = "awaitNeedle"
    /\ LET needle == call.needle
       IN IF ~isImage(needle) /\ ~isTextQuery(needle) /\ ~isWindowQuery(needle)
          THEN LET e == Err(<<"find requires an Image, a text query or a window query, but received ", needle.id>>)
               IN /\ call' = Reject(call, "needle", e, e)
                  /\ UNCHANGED providerCalls
          ELSE IF isWindowQuery(needle)
          THEN /\ call' = [call EXCEPT !.pc = "windowFinder"]
               /\ providerCalls' = Append(providerCalls, "windowFinder.findMatch")
          ELSE /\ call' = [call EXCEPT !.pc = "screenSize",
                              !.minMatch = Some(Coalesce(call.params.confidence, config.confidence))]
               /\ providerCalls' = Append(providerCalls, "screenSize")
    /\ UNCHANGED <<waitVars, findHooks, onLog, onError, config, highlightCalls, hookLog>>

\* getFindParameters after screenSize() has answered: the search region, then
\* the grab of it.
GetFindParametersScreenSize ==
    /\ call.pc = "screenSize"
    /\ \E ok \in BOOLEAN :
        IF ok
        THEN LET searchRegion == Coalesce(call.params.searchRegion, Screen)
             IN /\ call' = [call EXCEPT !.pc = "grabScreenRegion",
                                        !.screenSize = Some(Screen),
                                        !.searchRegion = Some(searchRegion)]
                /\ providerCalls' = Append(providerCalls, "grabScreenRegion")
        ELSE /\ call' = Catch(call, "screenSize", ScreenFailure)
             /\ UNCHANGED providerCalls
    /\ UNCHANGED <<waitVars, findHooks, onLog, onError, config, highlightCalls, hookLog>>

ResultRegion_NoOffset(searchRegion, location) ==
    Region(location.left, location.top, location.width, location.height)

\* new Region(searchRegion.left + location.left, searchRegion.top + location.top,
\*            location.width, location.height)
ResultRegion(searchRegion, location) ==
    Region(JsAdd(searchRegion.left, location.left),
           JsAdd(searchRegion.top, location.top),
           location.width, location.height)

\* A hook called with the match translated to the screen, as the region find
\* returns is.
HookArgument_Absolute(c, j) ==
    IF isWindowQuery(c.needle) THEN c.windows[j]
    ELSE [c.matchResults[j] EXCEPT
            !.location = ResultRegion(c.searchRegion[1], c.matchResults[j].location)]

\* hook(matchResult), hook(window), hook(wnd): what a hook is called with.
HookArgument(c, j) ==
    IF isWindowQuery(c.needle) THEN c.windows[j] ELSE c.matchResults[j]

\* One entry of the hook log: hook i of the call started on, completed on or
\* threw on result j, which is the argument it was called with.
HookEvent(ev, c, i, j) ==
    [ev |-> ev, hook |-> c.possibleHooks[i], result |-> j, arg |-> HookArgument(c, j)]

\* find starting the highlight as findAll does: without returning its promise.
FindReturn_FireAndForget(c) ==
    LET resultRegion == ResultRegion(c.searchRegion[1], c.matchResults[1].location)
    IN IF config.autoHighlight
       THEN /\ call' = Resolve([c EXCEPT !.resultRegions = <<resultRegion>>,
                                         !.background = 1,
                                         !.autoHighlight = Some(TRUE)],
                               <<resultRegion>>)
            /\ providerCalls' = Append(providerCalls, "highlightScreenRegion")
            /\ highlightCalls' = Append(highlightCalls,
                   [region |-> resultRegion,
                    durationMs |-> config.highlightDurationMs,
                    opacity |-> config.highlightOpacity])
       ELSE /\ call' = Resolve([c EXCEPT !.resultRegions = <<resultRegion>>,
                                         !.autoHighlight = Some(FALSE)],
                               <<resultRegion>>)
            /\ UNCHANGED <<providerCalls, highlightCalls>>

\* The end of find's region branch: the result region, highlighted when
\* config.autoHighlight is set (highlight up to its highlightScreenRegion call).
\* The call notes in autoHighlight what it read from config.autoHighlight.
FindReturn(c) ==
    LET resultRegion == ResultRegion(c.searchRegion[1], c.matchResults[1].location)
    IN IF config.autoHighlight
       THEN /\ call' = [c EXCEPT !.pc = "highlight", !.resultRegions = <<resultRegion>>,
                                 !.autoHighlight = Some(TRUE)]
            /\ providerCalls' = Append(providerCalls, "highlightScreenRegion")
            /\ highlightCalls' = Append(highlightCalls,
                   [region |-> resultRegion,
                    durationMs |-> config.highlightDurationMs,
                    opacity |-> config.highlightOpacity])
       ELSE /\ call' = Resolve([c EXCEPT !.resultRegions = <<resultRegion>>,
                                         !.autoHighlight = Some(FALSE)],
                               <<resultRegion>>)
            /\ UNCHANGED <<providerCalls, highlightCalls>>

\* find calling the hooks without awaiting them: all are started and find
\* goes on to its return.
FindHooksFrom_NotAwaited(c, i, log) ==
    /\ FindReturn(c)
    /\ hookLog' = log \o [k \in 1..Len(c.possibleHooks) |-> HookEvent("start", c, k, 1)]

\* for (const hook of possibleHooks) { await hook(matchResult) } from the i-th
\* hook on, and what follows the loop.
FindHooksFrom(c, i, log) ==
    IF i <= Len(c.possibleHooks)
    THEN /\ call' = [c EXCEPT !.pc = "hook", !.hook = i]
         /\ hookLog' = Append(log, HookEvent("start", c, i, 1))
         /\ UNCHANGED <<providerCalls, highlightCalls>>
    ELSE /\ FindReturn(c)
         /\ hookLog' = log

\* find bringing the confidence into (0, 1] before it builds the request.
FindSearch_ClampsConfidence ==
    /\ call.op = "find" /\ call.pc = "grabScreenRegion"
    /\ \E ok \in BOOLEAN :
        IF ok
        THEN LET clamped == IF call.minMatch[1] < 1 THEN 1
                            ELSE IF call.minMatch[1] > 100 THEN 100
                            ELSE call.minMatch[1]
                 matchRequest == createMatchRequest(call.needle, call.searchRegion[1],
                                     clamped, ImageOf(call.searchRegion[1]))
                 invalid == validateSearchRegion(call.searchRegion[1], call.screenSize[1])
             IN IF invalid # None
                THEN /\ call' = Catch([call EXCEPT !.matchRequest = Some(matchRequest)],
                                      "validate", invalid[1])
                     /\ UNCHANGED providerCalls
                ELSE /\ call' = [call EXCEPT !.pc = "finder",
                                             !.matchRequest = Some(matchRequest)]
                     /\ providerCalls' = Append(providerCalls, getMatchResult(matchRequest))
        ELSE /\ call' = Catch(call, "grabScreenRegion", ScreenFailure)
             /\ UNCHANGED providerCalls
    /\ UNCHANGED <<waitVars, findHooks, onLog, onError, config, highlightCalls, hookLog>>

\* getFindParameters after the grab, createMatchRequest, validateSearchRegion
\* and the call of the finder.
FindSearch ==
    /\ call.op = "find" /\ call.pc = "grabScreenRegion"
    /\ \E ok \in BOOLEAN :
        IF ok
        THEN LET matchRequest == createMatchRequest(call.needle, call.searchRegion[1],
                                     call.minMatch[1], ImageOf(call.searchRegion[1]))
                 invalid == validateSearchRegion(call.searchRegion[1], call.screenSize[1])
             IN IF invalid # None
                THEN /\ call' = Catch([call EXCEPT !.matchRequest = Some(matchRequest)],
                                      "validate", invalid[1])
                     /\ UNCHANGED providerCalls
                ELSE /\ call' = [call EXCEPT !.pc = "finder",
                                             !.matchRequest = Some(matchRequest)]
                     /\ providerCalls' = Append(providerCalls, getMatchResult(matchRequest))
        ELSE /\ call' = Catch(call, "grabScreenRegion", ScreenFailure)
             /\ UNCHANGED providerCalls
    /\ UNCHANGED <<waitVars, findHooks, onLog, onError, config, highlightCalls, hookLog>>

\* find running the hooks that were registered when it was called.
FindMatched_HooksAtCall ==
    /\ call.op = "find" /\ call.pc = "finder"
    /\ \/ /\ call' = Catch(call, "finder", FinderFailure)
          /\ UNCHANGED <<providerCalls, highlightCalls, hookLog>>
       \/ \E matchResult \in MatchResults :
            FindHooksFrom([call EXCEPT !.matchResults = <<matchResult>>,
                                       !.possibleHooks = call.hooksAtCall],
                          1, hookLog)
    /\ UNCHANGED <<waitVars, findHooks, onLog, onError, config>>

\* find asking the finder a second time when its first answer is a rejection.
FindMatched_SecondTry ==
    /\ call.op = "find" /\ call.pc = "finder"
    /\ \/ IF Len(providerCalls) < 4
          THEN /\ call' = call
               /\ providerCalls' = Append(providerCalls, getMatchResult(call.matchRequest[1]))
               /\ UNCHANGED <<highlightCalls, hookLog>>
          ELSE /\ call' = Catch(call, "finder", FinderFailure)
               /\ UNCHANGED <<providerCalls, highlightCalls, hookLog>>
       \/ \E matchResult \in MatchResults :
            FindHooksFrom([call EXCEPT !.matchResults = <<matchResult>>,
                                       !.possibleHooks = Coalesce(getHooksForInput(call.needle), <<>>)],
                          1, hookLog)
    /\ UNCHANGED <<waitVars, findHooks, onLog, onError, config>>

\* The finder has answered: the hooks of the needle, the first of them called.
FindMatched ==
    /\ call.op = "find" /\ call.pc = "finder"
    /\ \/ /\ call' = Catch(call, "finder", FinderFailure)
          /\ UNCHANGED <<providerCalls, highlightCalls, hookLog>>
       \/ \E matchResult \in MatchResults :
            FindHooksFrom([call EXCEPT !.matchResults = <<matchResult>>,
                                       !.possibleHooks = Coalesce(getHooksForInput(call.needle), <<>>)],
                          1, hookLog)
    /\ UNCHANGED <<waitVars, findHooks, onLog, onError, config>>

FindHookDone_Skip ==
    /\ call.op = "find" /\ call.pc = "hook"
    /\ \/ FindHooksFrom(call, call.hook + 2,
                        Append(hookLog, HookEvent("end", call, call.hook, 1)))
       \/ /\ call' = Catch(call, "hook", HookFailure)
          /\ hookLog' = Append(hookLog, HookEvent("throw", call, call.hook, 1))
          /\ UNCHANGED <<providerCalls, highlightCalls>>
    /\ UNCHANGED <<waitVars, findHooks, onLog, onError, config>>

FindHookDone_Swallow ==
    /\ call.op = "find" /\ call.pc = "hook"
    /\ \/ FindHooksFrom(call, call.hook + 1,
                        Append(hookLog, HookEvent("end", call, call.hook, 1)))
       \/ FindHooksFrom(call, call.hook + 1,
                        Append(hookLog, HookEvent("throw", call, call.hook, 1)))
    /\ UNCHANGED <<waitVars, findHooks, onLog, onError, config>>

\* The awaited hook has completed or thrown.
FindHookDone ==
    /\ call.op = "find" /\ call.pc = "hook"
    /\ \/ FindHooksFrom(call, call.hook + 1,
                        Append(hookLog, HookEvent("end", call, call.hook, 1)))
       \/ /\ call' = Catch(call, "hook", HookFailure)
          /\ hookLog' = Append(hookLog, HookEvent("throw", call, call.hook, 1))
          /\ UNCHANGED <<providerCalls, highlightCalls>>
    /\ UNCHANGED <<waitVars, findHooks, onLog, onError, config>>

FindHighlighted_Awaited ==
    /\ call.op = "find" /\ call.pc = "highlight"
    /\ \/ call' = Resolve(call, call.resultRegions)
       \/ call' = Catch(call, "highlight", HighlightFailure)
    /\ UNCHANGED <<waitVars, findHooks, onLog, onError, config, providerCalls, highlightCalls, hookLog>>

\* highlightScreenRegion has answered: highlight returns its region, and find,
\* which returned highlight's promise, settles as that promise does.
FindHighlighted ==
    /\ call.op = "find" /\ call.pc = "highlight"
    /\ \/ call' = Resolve(call, call.resultRegions)
       \/ call' = Reject(call, "highlight", HighlightFailure, HighlightFailure)
    /\ UNCHANGED <<waitVars, findHooks, onLog, onError, config, providerCalls, highlightCalls, hookLog>>

\* for (const hook of possibleHooks) { await hook(window) } from the i-th hook
\* on, then return window.
FindWindowHooksFrom(c, i, log) ==
    IF i <= Len(c.possibleHooks)
    THEN /\ call' = [c EXCEPT !.pc = "windowHook", !.hook = i]
         /\ hookLog' = Append(log, HookEvent("start", c, i, 1))
    ELSE /\ call' = Resolve(c, c.windows)
         /\ hookLog' = log

\* The window finder has answered.
FindWindowMatched ==
    /\ call.op = "find" /\ call.pc = "windowFinder"
    /\ \/ /\ call' = Catch(call, "windowFinder", FinderFailure)
          /\ UNCHANGED hookLog
       \/ \E windowHandle \in WindowHandles :
            FindWindowHooksFrom([call EXCEPT !.windows = <<Window(windowHandle)>>,
                                    !.possibleHooks = Coalesce(getHooksForInput(call.needle), <<>>)],
                                1, hookLog)
    /\ UNCHANGED <<waitVars, findHooks, onLog, onError, config, providerCalls, highlightCalls>>

\* The awaited hook of a window match has completed or thrown.
FindWindowHookDone ==
    /\ call.op = "find" /\ call.pc = "windowHook"
    /\ \/ FindWindowHooksFrom(call, call.hook + 1,
                              Append(hookLog, HookEvent("end", call, call.hook, 1)))
       \/ /\ call' = Catch(call, "hook", HookFailure)
          /\ hookLog' = Append(hookLog, HookEvent("throw", call, call.hook, 1))
    /\ UNCHANGED <<waitVars, findHooks, onLog, onError, config, providerCalls, highlightCalls>>

(***************************************************************************)
(* findAll(searchInput, params)                                            *)
(***************************************************************************)
\* Every list of at most MaxResults elements of S.
ListsOf(S) == UNION {[1..n -> S] : n \in 0..MaxResults}

\* The caller calls findAll; findAll suspends at `await searchInput`.
FindAllCall(searchInput, params) ==
    /\ call.pc = "idle" /\ wait.pc = "idle"
    /\ call' = [IdleCall EXCEPT !.op = "findAll", !.pc = "awaitNeedle",
                                !.needle = searchInput, !.params = params,
                                !.hooksAtCall = Coalesce(getHooksForInput(searchInput), <<>>)]
    /\ providerCalls' = <<>>
    /\ highlightCalls' = <<>>
    /\ hookLog' = <<>>
    /\ UNCHANGED <<waitVars, findHooks, onLog, onError, config>>

\* findAll falling back on the confidence the instance was built with, not on
\* the one config holds now.
FindAllCheckNeedle_InitialConfidence ==
    /\ call.op = "findAll" /\ call.pc = "awaitNeedle"
    /\ LET needle == call.needle
       IN IF ~isImage(needle) /\ ~isTextQuery(needle) /\ ~isWindowQuery(needle)
          THEN LET e == Err(<<"findAll requires an Image, a text query or a window query, but received ", needle.id>>)
               IN /\ call' = Reject(call, "needle", e, e)
                  /\ UNCHANGED providerCalls
          ELSE IF isWindowQuery(needle)
          THEN /\ call' = [call EXCEPT !.pc = "windowFinder"]
               /\ providerCalls' = Append(providerCalls, "windowFinder.findMatches")
          ELSE /\ call' = [call EXCEPT !.pc = "screenSize",
                              !.minMatch = Some(Coalesce(call.params.confidence, DefaultConfidence))]
               /\ providerCalls' = Append(providerCalls, "screenSize")
    /\ UNCHANGED <<waitVars, findHooks, onLog, onError, config, highlightCalls, hookLog>>

\* The needle check, then the window finder's findMatches or getFindParameters
\* up to its screenSize() call.
FindAllCheckNeedle ==
    /\ call.op = "findAll" /\ call.pc = "awaitNeedle"
    /\ LET needle == call.needle
       IN IF ~isImage(needle) /\ ~isTextQuery(needle) /\ ~isWindowQuery(needle)
          THEN LET e == Err(<<"findAll requires an Image, a text query or a window query, but received ", needle.id>>)
               IN /\ call' = Reject(call, "needle", e, e)
                  /\ UNCHANGED providerCalls
          ELSE IF isWindowQuery(needle)
          THEN /\ call' = [call EXCEPT !.pc = "windowFinder"]
               /\ providerCalls' = Append(providerCalls, "windowFinder.findMatches")
          ELSE /\ call' = [call EXCEPT !.pc = "screenSize",
                              !.minMatch = Some(Coalesce(call.params.confidence, config.confidence))]
               /\ providerCalls' = Append(providerCalls, "screenSize")
    /\ UNCHANGED <<waitVars, findHooks, onLog, onError, config, highlightCalls, hookLog>>

\* findAll without its validateSearchRegion call.
FindAllSearch_NoValidation ==
    /\ call.op = "findAll" /\ call.pc = "grabScreenRegion"
    /\ \E ok \in BOOLEAN :
        IF ok
        THEN LET matchRequest == createMatchRequest(call.needle, call.searchRegion[1],
                                     call.minMatch[1], ImageOf(call.searchRegion[1]))
             IN /\ call' = [call EXCEPT !.pc = "finder",
                                        !.matchRequest = Some(matchRequest)]
                /\ providerCalls' = Append(providerCalls, getMatchResults(matchRequest))
        ELSE /\ call' = Catch(call, "grabScreenRegion", ScreenFailure)
             /\ UNCHANGED providerCalls
    /\ UNCHANGED <<waitVars, findHooks, onLog, onError, config, highlightCalls, hookLog>>

\* getFindParameters after the grab, createMatchRequest, validateSearchRegion
\* and the call of the finder.
FindAllSearch ==
    /\ call.op = "findAll" /\ call.pc = "grabScreenRegion"
    /\ \E ok \in BOOLEAN :
        IF ok
        THEN LET matchRequest == createMatchRequest(call.needle, call.searchRegion[1],
                                     call.minMatch[1], ImageOf(call.searchRegion[1]))
                 invalid == validateSearchRegion(call.searchRegion[1], call.screenSize[1])
             IN IF invalid # None
                THEN /\ call' = Catch([call EXCEPT !.matchRequest = Some(matchRequest)],
                                      "validate", invalid[1])
                     /\ UNCHANGED providerCalls
                ELSE /\ call' = [call EXCEPT !.pc = "finder",
                                             !.matchRequest = Some(matchRequest)]
                     /\ providerCalls' = Append(providerCalls, getMatchResults(matchRequest))
        ELSE /\ call' = Catch(call, "grabScreenRegion", ScreenFailure)
             /\ UNCHANGED providerCalls
    /\ UNCHANGED <<waitVars, findHooks, onLog, onError, config, highlightCalls, hookLog>>

\* findAll waiting for its highlights before it returns.
FindAllReturn_Awaited(c) ==
    LET resultRegions == [k \in 1..Len(c.matchResults) |->
                             ResultRegion(c.searchRegion[1], c.matchResults[k].location)]
    IN IF config.autoHighlight
       THEN /\ call' = [c EXCEPT !.pc = "highlight", !.resultRegions = resultRegions,
                                 !.background = Len(resultRegions),
                                 !.autoHighlight = Some(TRUE)]
            /\ providerCalls' = providerCalls \o
                   [k \in 1..Len(resultRegions) |-> "highlightScreenRegion"]
            /\ highlightCalls' = highlightCalls \o
                   [k \in 1..Len(resultRegions) |->
                       [region |-> resultRegions[k],
                        durationMs |-> config.highlightDurationMs,
                        opacity |-> config.highlightOpacity]]
       ELSE /\ call' = Resolve([c EXCEPT !.resultRegions = resultRegions,
                                         !.autoHighlight = Some(FALSE)],
                               resultRegions)
            /\ UNCHANGED <<providerCalls, highlightCalls>>

\* findAll handing back its result regions last match first.
FindAllReturn_Reversed(c) ==
    LET n == Len(c.matchResults)
        resultRegions == [k \in 1..n |->
                             ResultRegion(c.searchRegion[1], c.matchResults[n + 1 - k].location)]
    IN IF config.autoHighlight
       THEN /\ call' = Resolve([c EXCEPT !.resultRegions = resultRegions,
                                         !.background = Len(resultRegions),
                                         !.autoHighlight = Some(TRUE)],
                               resultRegions)
            /\ providerCalls' = providerCalls \o
                   [k \in 1..Len(resultRegions) |-> "highlightScreenRegion"]
            /\ highlightCalls' = highlightCalls \o
                   [k \in 1..Len(resultRegions) |->
                       [region |-> resultRegions[k],
                        durationMs |-> config.highlightDurationMs,
                        opacity |-> config.highlightOpacity]]
       ELSE /\ call' = Resolve([c EXCEPT !.resultRegions = resultRegions,
                                         !.autoHighlight = Some(FALSE)],
                               resultRegions)
            /\ UNCHANGED <<providerCalls, highlightCalls>>

\* The end of findAll's region branch: the result regions; with
\* config.autoHighlight each is handed to highlight, whose promise is dropped:
\* the highlights run on while findAll has returned.
FindAllReturn(c) ==
    LET resultRegions == [k \in 1..Len(c.matchResults) |->
                             ResultRegion(c.searchRegion[1], c.matchResults[k].location)]
    IN IF config.autoHighlight
       THEN /\ call' = Resolve([c EXCEPT !.resultRegions = resultRegions,
                                         !.background = Len(resultRegions),
                                         !.autoHighlight = Some(TRUE)],
                               resultRegions)
            /\ providerCalls' = providerCalls \o
                   [k \in 1..Len(resultRegions) |-> "highlightScreenRegion"]
            /\ highlightCalls' = highlightCalls \o
                   [k \in 1..Len(resultRegions) |->
                       [region |-> resultRegions[k],
                        durationMs |-> config.highlightDurationMs,
                        opacity |-> config.highlightOpacity]]
       ELSE /\ call' = Resolve([c EXCEPT !.resultRegions = resultRegions,
                                         !.autoHighlight = Some(FALSE)],
                               resultRegions)
            /\ UNCHANGED <<providerCalls, highlightCalls>>

\* The loops exchanged: for each result, every hook.
FindAllHooksFrom_ResultMajor(c, i, j, log) ==
    IF j = 1 /\ 1 <= Len(c.possibleHooks) /\ 1 <= Len(c.matchResults)
    THEN /\ call' = [c EXCEPT !.pc = "hook", !.hook = 1, !.result = 1]
         /\ hookLog' = Append(log, HookEvent("start", c, 1, 1))
         /\ UNCHANGED <<providerCalls, highlightCalls>>
    ELSE IF j > 1 /\ i < Len(c.possibleHooks)
    THEN /\ call' = [c EXCEPT !.pc = "hook", !.hook = i + 1, !.result = j - 1]
         /\ hookLog' = Append(log, HookEvent("start", c, i + 1, j - 1))
         /\ UNCHANGED <<providerCalls, highlightCalls>>
    ELSE IF j > 1 /\ j <= Len(c.matchResults)
    THEN /\ call' = [c EXCEPT !.pc = "hook", !.hook = 1, !.result = j]
         /\ hookLog' = Append(log, HookEvent("start", c, 1, j))
         /\ UNCHANGED <<providerCalls, highlightCalls>>
    ELSE /\ FindAllReturn(c)
         /\ hookLog' = log

FindAllHooksFrom_FirstResultOnly(c, i, j, log) ==
    IF i <= Len(c.possibleHooks) /\ j <= 1 /\ j <= Len(c.matchResults)
    THEN /\ call' = [c EXCEPT !.pc = "hook", !.hook = i, !.result = j]
         /\ hookLog' = Append(log, HookEvent("start", c, i, j))
         /\ UNCHANGED <<providerCalls, highlightCalls>>
    ELSE IF i < Len(c.possibleHooks) /\ 1 <= Len(c.matchResults)
    THEN /\ call' = [c EXCEPT !.pc = "hook", !.hook = i + 1, !.result = 1]
         /\ hookLog' = Append(log, HookEvent("start", c, i + 1, 1))
         /\ UNCHANGED <<providerCalls, highlightCalls>>
    ELSE /\ FindAllReturn(c)
         /\ hookLog' = log

\* for (const hook of possibleHooks) { for (const matchResult of matchResults)
\* { await hook(matchResult) } } from the i-th hook and the j-th result on, and
\* what follows the loops.
FindAllHooksFrom(c, i, j, log) ==
    IF i <= Len(c.possibleHooks) /\ j <= Len(c.matchResults)
    THEN /\ call' = [c EXCEPT !.pc = "hook", !.hook = i, !.result = j]
         /\ hookLog' = Append(log, HookEvent("start", c, i, j))
         /\ UNCHANGED <<providerCalls, highlightCalls>>
    ELSE IF i < Len(c.possibleHooks) /\ 1 <= Len(c.matchResults)
    THEN /\ call' = [c EXCEPT !.pc = "hook", !.hook = i + 1, !.result = 1]
         /\ hookLog' = Append(log, HookEvent("start", c, i + 1, 1))
         /\ UNCHANGED <<providerCalls, highlightCalls>>
    ELSE /\ FindAllReturn(c)
         /\ hookLog' = log

\* findAll taking the hooks of the needle out of the registry as it reads
\* them: hooks that run for one search only.
FindAllMatched_ConsumesHooks ==
    /\ call.op = "findAll" /\ call.pc = "finder"
    /\ \/ /\ call' = Catch(call, "finder", FinderFailure)
          /\ UNCHANGED <<providerCalls, highlightCalls, hookLog, findHooks>>
       \/ /\ \E matchResults \in ListsOf(MatchResults) :
                FindAllHooksFrom([call EXCEPT !.matchResults = matchResults,
                                      !.possibleHooks = Coalesce(getHooksForInput(call.needle), <<>>)],
                                 1, 1, hookLog)
          /\ findHooks' = [k \in DOMAIN findHooks \ {call.needle.obj} |-> findHooks[k]]
    /\ UNCHANGED <<waitVars, onLog, onError, config>>

\* The finder has answered with its list of results.
FindAllMatched ==
    /\ call.op = "findAll" /\ call.pc = "finder"
    /\ \/ /\ call' = Catch(call, "finder", FinderFailure)
          /\ UNCHANGED <<providerCalls, highlightCalls, hookLog>>
       \/ \E matchResults \in ListsOf(MatchResults) :
            FindAllHooksFrom([call EXCEPT !.matchResults = matchResults,
                                  !.possibleHooks = Coalesce(getHooksForInput(call.needle), <<>>)],
                             1, 1, hookLog)
    /\ UNCHANGED <<waitVars, findHooks, onLog, onError, config>>

\* The awaited hook has completed or thrown.
FindAllHookDone ==
    /\ call.op = "findAll" /\ call.pc = "hook"
    /\ \/ FindAllHooksFrom(call, call.hook, call.result + 1,
                           Append(hookLog, HookEvent("end", call, call.hook, call.result)))
       \/ /\ call' = Catch(call, "hook", HookFailure)
          /\ hookLog' = Append(hookLog, HookEvent("throw", call, call.hook, call.result))
          /\ UNCHANGED <<providerCalls, highlightCalls>>
    /\ UNCHANGED <<waitVars, findHooks, onLog, onError, config>>

\* A highlight that findAll started and dropped has ended, well or not: nobody
\* holds its promise.
FindAllHighlightDone ==
    /\ call.op = "findAll" /\ call.background > 0
    /\ call' = [call EXCEPT !.background = call.background - 1]
    /\ UNCHANGED <<waitVars, findHooks, onLog, onError, config, providerCalls, highlightCalls, hookLog>>

\* The loops over the hooks and the windows from the i-th hook and the j-th
\* window on, then return windows.
FindAllWindowHooksFrom(c, i, j, log) ==
    IF i <= Len(c.possibleHooks) /\ j <= Len(c.windows)
    THEN /\ call' = [c EXCEPT !.pc = "windowHook", !.hook = i, !.result = j]
         /\ hookLog' = Append(log, HookEvent("start", c, i, j))
    ELSE IF i < Len(c.possibleHooks) /\ 1 <= Len(c.windows)
    THEN /\ call' = [c EXCEPT !.pc = "windowHook", !.hook = i + 1, !.result = 1]
         /\ hookLog' = Append(log, HookEvent("start", c, i + 1, 1))
    ELSE /\ call' = Resolve(c, c.windows)
         /\ hookLog' = log

\* The window finder has answered with its list of handles.
FindAllWindowMatched ==
    /\ call.op = "findAll" /\ call.pc = "windowFinder"
    /\ \/ /\ call' = Catch(call, "windowFinder", FinderFailure)
          /\ UNCHANGED hookLog
       \/ \E matches \in ListsOf(WindowHandles) :
            FindAllWindowHooksFrom(
                [call EXCEPT !.windows = [k \in 1..Len(matches) |-> Window(matches[k])],
                             !.possibleHooks = Coalesce(getHooksForInput(call.needle), <<>>)],
                1, 1, hookLog)
    /\ UNCHANGED <<waitVars, findHooks, onLog, onError, config, providerCalls, highlightCalls>>

\* The awaited hook of a window match has completed or thrown.
FindAllWindowHookDone ==
    /\ call.op = "findAll" /\ call.pc = "windowHook"
    /\ \/ FindAllWindowHooksFrom(call, call.hook, call.result + 1,
                                 Append(hookLog, HookEvent("end", call, call.hook, call.result)))
       \/ /\ call' = Catch(call, "hook", HookFailure)
          /\ hookLog' = Append(hookLog, HookEvent("throw", call, call.hook, call.result))
    /\ UNCHANGED <<waitVars, findHooks, onLog, onError, config, providerCalls, highlightCalls>>

FindAll ==
    \/ FindAllCheckNeedle
    \/ FindAllSearch
    \/ FindAllMatched
    \/ FindAllHookDone
    \/ FindAllHighlightDone
    \/ FindAllWindowMatched
    \/ FindAllWindowHookDone

\* The caller has taken the outcome of the settled call (and the highlights
\* findAll left behind have ended): the instance is ready for the next call.
Return ==
    /\ call.pc = "settled" /\ call.background = 0
    /\ call' = IdleCall
    /\ providerCalls' = <<>>
    /\ highlightCalls' = <<>>
    /\ hookLog' = <<>>
    /\ UNCHANGED <<waitVars, findHooks, onLog, onError, config>>

Find ==
    \/ FindCheckNeedle
    \/ GetFindParametersScreenSize
    \/ FindSearch
    \/ FindMatched
    \/ FindHookDone
    \/ FindHighlighted
    \/ FindWindowMatched
    \/ FindWindowHookDone

Next ==
    \/ \E n \in SupportedNeedles : On(n, Registered + 1)
    \/ \E b \in BOOLEAN : SetAutoHighlight(b)
    \/ \E n \in Needles, p \in ParamsOver(SampleRegions) : FindCall(n, p)
    \/ \E n \in Needles, p \in ParamsOver(SampleRegions) : FindAllCall(n, p)
    \/ Find
    \/ FindAll
    \/ Return

Spec == Init /\ [][Next]_vars

\* find over every search region with coordinates in Coords, on an instance
\* without hooks and with the default config.
NextRegions ==
    \/ \E n \in {ImageNeedle, TextNeedle}, p \in ParamsOver(AllRegions) : FindCall(n, p)
    \/ FindCheckNeedle
    \/ GetFindParametersScreenSize
    \/ FindSearch
    \/ FindMatched
    \/ Return

SpecRegions == Init /\ [][NextRegions]_vars

\* on and find over KeyNeedles, the hooks registered between the calls of find.
NextKeys ==
    \/ \E n \in KeyNeedles : call.pc = "idle" /\ On(n, Registered + 1)
    \/ \E n \in KeyNeedles : FindCall(n, NoParams)
    \/ FindCheckNeedle
    \/ GetFindParametersScreenSize
    \/ FindSearch
    \/ FindMatched
    \/ FindHookDone
    \/ Return

SpecKeys == Init /\ [][NextKeys]_vars

(***************************************************************************)
(* waitFor, and the retry driver timeout(updateIntervalMs, maxDurationMs,  *)
(* action, {signal}) it hands the search to.  The driver polls: it calls   *)
(* action, and when the attempt fails it waits updateIntervalMs and calls  *)
(* action again, until an attempt succeeds, maxDurationMs have passed or   *)
(* the signal aborts.                                                      *)
(***************************************************************************)
WaitTimeouts == {None, Some(ShortTimeoutMs)}
WaitIntervals == {None, Some(LongIntervalMs)}
TimeoutFailure(maxDurationMs) == Str(<<"Action timed out after ", ToString(maxDurationMs), " ms">>)
AbortFailure == Str(<<"Action aborted by signal">>)

\* The caller calls waitFor; waitFor suspends at `await searchInput`.
WaitForCall(searchInput, timeoutMs, updateInterval, params, abort) ==
    /\ wait.pc = "idle" /\ call.pc = "idle"
    /\ wait' = [IdleWait EXCEPT !.pc = "awaitNeedle", !.needle = searchInput,
                                !.params = params, !.timeoutMs = timeoutMs,
                                !.updateInterval = updateInterval]
    /\ signal' = IF abort THEN "armed" ELSE "none"
    /\ now' = 0
    /\ UNCHANGED <<findHooks, onLog, onError, config, call, providerCalls, highlightCalls, hookLog>>

\* A driver that polls on a fixed period: it arms the first retry when it
\* starts, not when the attempt has failed.
TimeoutStart_Periodic(w, updateIntervalMs, maxDurationMs, withSignal) ==
    [w EXCEPT !.pc = "polling", !.updateIntervalMs = updateIntervalMs,
              !.maxDurationMs = maxDurationMs, !.listening = withSignal,
              !.attempts = 1, !.inFlight = TRUE,
              !.retryAt = Some(now + updateIntervalMs)]

\* The driver starts: it listens to the signal it was given, arms the timer of
\* maxDurationMs and makes the first attempt at once.
TimeoutStart(w, updateIntervalMs, maxDurationMs, withSignal) ==
    [w EXCEPT !.pc = "polling", !.updateIntervalMs = updateIntervalMs,
              !.maxDurationMs = maxDurationMs, !.listening = withSignal,
              !.attempts = 1, !.inFlight = TRUE]

\* waitFor not handing params.abort on to the driver.
WaitForCheckNeedle_NoSignal ==
    /\ wait.pc = "awaitNeedle"
    /\ LET needle == wait.needle
           timeoutValue == Coalesce(wait.timeoutMs, DefaultTimeoutMs)
           updateIntervalValue == Coalesce(wait.updateInterval, DefaultUpdateIntervalMs)
       IN IF ~isImage(needle) /\ ~isTextQuery(needle) /\ ~isWindowQuery(needle)
          THEN /\ wait' = [wait EXCEPT !.pc = "settled", !.status = "rejected",
                                       !.error = Err(<<"waitFor requires an Image, a text query or a window query, but received ", needle.id>>),
                                       !.outcome = "needle", !.settledAt = now]
               /\ UNCHANGED <<findHooks, onLog, onError, config, call, providerCalls, highlightCalls, hookLog>>
          ELSE /\ wait' = TimeoutStart(wait, updateIntervalValue, timeoutValue, FALSE)
               /\ StartFind(needle, wait.params)
    /\ UNCHANGED <<signal, now>>

\* waitFor handing the driver its two durations in the wrong order.
WaitForCheckNeedle_SwappedDurations ==
    /\ wait.pc = "awaitNeedle"
    /\ LET needle == wait.needle
           timeoutValue == Coalesce(wait.timeoutMs, DefaultTimeoutMs)
           updateIntervalValue == Coalesce(wait.updateInterval, DefaultUpdateIntervalMs)
       IN IF ~isImage(needle) /\ ~isTextQuery(needle) /\ ~isWindowQuery(needle)
          THEN /\ wait' = [wait EXCEPT !.pc = "settled", !.status = "rejected",
                                       !.error = Err(<<"waitFor requires an Image, a text query or a window query, but received ", needle.id>>),
                                       !.outcome = "needle", !.settledAt = now]
               /\ UNCHANGED <<findHooks, onLog, onError, config, call, providerCalls, highlightCalls, hookLog>>
          ELSE /\ wait' = TimeoutStart(wait, timeoutValue, updateIntervalValue,
                                        signal # "none")
               /\ StartFind(needle, wait.params)
    /\ UNCHANGED <<signal, now>>

\* waitFor looking at params.searchRegion itself and giving up, before it
\* starts the driver, when the region does not lie on the screen.
WaitForCheckNeedle_ValidatesRegion ==
    /\ wait.pc = "awaitNeedle"
    /\ LET needle == wait.needle
           timeoutValue == Coalesce(wait.timeoutMs, DefaultTimeoutMs)
           updateIntervalValue == Coalesce(wait.updateInterval, DefaultUpdateIntervalMs)
           invalid == IF wait.params.searchRegion = None THEN None
                      ELSE validateSearchRegion(wait.params.searchRegion[1], Screen)
       IN IF ~isImage(needle) /\ ~isTextQuery(needle) /\ ~isWindowQuery(needle)
          THEN /\ wait' = [wait EXCEPT !.pc = "settled", !.status = "rejected",
                                       !.error = Err(<<"waitFor requires an Image, a text query or a window query, but received ", needle.id>>),
                                       !.outcome = "needle", !.settledAt = now]
               /\ UNCHANGED <<findHooks, onLog, onError, config, call, providerCalls, highlightCalls, hookLog>>
          ELSE IF invalid # None
          THEN /\ wait' = [wait EXCEPT !.pc = "settled", !.status = "rejected",
                                       !.error = WrapError(needle, invalid[1]),
                                       !.outcome = "validate", !.settledAt = now]
               /\ UNCHANGED <<findHooks, onLog, onError, config, call, providerCalls, highlightCalls, hookLog>>
          ELSE /\ wait' = TimeoutStart(wait, updateIntervalValue, timeoutValue,
                                        signal # "none")
               /\ StartFind(needle, wait.params)
    /\ UNCHANGED <<signal, now>>

\* The defaults, the needle check, and the call of timeout, whose action is
\* this.find(needle, params).
WaitForCheckNeedle ==
    /\ wait.pc = "awaitNeedle"
    /\ LET needle == wait.needle
           timeoutValue == Coalesce(wait.timeoutMs, DefaultTimeoutMs)
           updateIntervalValue == Coalesce(wait.updateInterval, DefaultUpdateIntervalMs)
       IN IF ~isImage(needle) /\ ~isTextQuery(needle) /\ ~isWindowQuery(needle)
          THEN /\ wait' = [wait EXCEPT !.pc = "settled", !.status = "rejected",
                                       !.error = Err(<<"waitFor requires an Image, a text query or a window query, but received ", needle.id>>),
                                       !.outcome = "needle", !.settledAt = now]
               /\ UNCHANGED <<findHooks, onLog, onError, config, call, providerCalls, highlightCalls, hookLog>>
          ELSE /\ wait' = TimeoutStart(wait, updateIntervalValue, timeoutValue,
                                        signal # "none")
               /\ StartFind(needle, wait.params)
    /\ UNCHANGED <<signal, now>>

\* The driver's waitFor promise settles; its timers are cleared.
Settle(w, status, outcome, value, error) ==
    [w EXCEPT !.pc = "settled", !.status = status, !.outcome = outcome,
              !.value = value, !.error = error, !.settledAt = now,
              !.retryAt = None]

\* An attempt succeeded and the driver, still polling, keeps polling as after
\* a failure.
TimeoutOnResolve_Retry ==
    /\ wait.inFlight /\ call.pc = "settled" /\ call.status = "resolved"
    /\ wait' = IF wait.pc = "polling"
               THEN [wait EXCEPT !.inFlight = FALSE, !.completed = @ + 1,
                                 !.successes = @ + 1,
                                 !.retryAt = Some(now + wait.updateIntervalMs)]
               ELSE [wait EXCEPT !.inFlight = FALSE, !.completed = @ + 1,
                                 !.successes = @ + 1]
    /\ UNCHANGED <<signal, now, findHooks, onLog, onError, config, call, providerCalls, highlightCalls, hookLog>>

\* An attempt succeeded: the driver resolves with its result, unless it has
\* settled already.
TimeoutOnResolve ==
    /\ wait.inFlight /\ call.pc = "settled" /\ call.status = "resolved"
    /\ wait' = IF wait.pc = "polling"
               THEN [Settle(wait, "resolved", "matched", call.value, NoError)
                        EXCEPT !.inFlight = FALSE, !.completed = @ + 1,
                               !.successes = @ + 1]
               ELSE [wait EXCEPT !.inFlight = FALSE, !.completed = @ + 1,
                                 !.successes = @ + 1]
    /\ UNCHANGED <<signal, now, findHooks, onLog, onError, config, call, providerCalls, highlightCalls, hookLog>>

\* A driver that goes on retrying after it has settled: a failed attempt that
\* ends then is followed by the next attempt at once.
TimeoutOnReject_RetriesAfterSettled ==
    /\ wait.inFlight /\ call.pc = "settled" /\ call.status = "rejected"
    /\ IF wait.pc = "polling"
       THEN /\ wait' = [wait EXCEPT !.inFlight = FALSE, !.completed = @ + 1,
                                    !.retryAt = Some(now + wait.updateIntervalMs)]
            /\ UNCHANGED <<findHooks, onLog, onError, config, call, providerCalls,
                           highlightCalls, hookLog>>
       ELSE /\ wait' = [wait EXCEPT !.completed = @ + 1, !.attempts = @ + 1]
            /\ StartFind(wait.needle, wait.params)
    /\ UNCHANGED <<signal, now>>

\* An attempt failed: the driver, if still polling, arms the retry timer.
TimeoutOnReject ==
    /\ wait.inFlight /\ call.pc = "settled" /\ call.status = "rejected"
    /\ wait' = IF wait.pc = "polling"
               THEN [wait EXCEPT !.inFlight = FALSE, !.completed = @ + 1,
                                 !.retryAt = Some(now + wait.updateIntervalMs)]
               ELSE [wait EXCEPT !.inFlight = FALSE, !.completed = @ + 1]
    /\ UNCHANGED <<signal, now, findHooks, onLog, onError, config, call, providerCalls, highlightCalls, hookLog>>

\* The retry timer fires: the next attempt.
TimeoutRetry ==
    /\ wait.pc = "polling" /\ wait.retryAt # None /\ now >= wait.retryAt[1]
    /\ wait' = [wait EXCEPT !.attempts = @ + 1, !.inFlight = TRUE, !.retryAt = None]
    /\ StartFind(wait.needle, wait.params)
    /\ UNCHANGED <<signal, now>>

\* A driver whose timer of maxDurationMs is cleared with the retry timer, each
\* time an attempt starts: it never fires while the driver polls.
TimeoutExpire_Cleared ==
    /\ wait.pc = "polling" /\ now >= wait.maxDurationMs
    /\ wait.attempts = 0
    /\ wait' = Settle(wait, "rejected", "timedOut", <<>>, TimeoutFailure(wait.maxDurationMs))
    /\ UNCHANGED <<signal, now, findHooks, onLog, onError, config, call, providerCalls, highlightCalls, hookLog>>

\* The timer of maxDurationMs fires.
TimeoutExpire ==
    /\ wait.pc = "polling" /\ now >= wait.maxDurationMs
    /\ wait' = Settle(wait, "rejected", "timedOut", <<>>, TimeoutFailure(wait.maxDurationMs))
    /\ UNCHANGED <<signal, now, findHooks, onLog, onError, config, call, providerCalls, highlightCalls, hookLog>>

\* A driver that looks at the signal only between attempts: the abort of the
\* signal is noted and the polling goes on.
TimeoutAbort_AtBoundary ==
    /\ wait.pc = "polling" /\ signal = "armed"
    /\ signal' = "aborted"
    /\ wait' = [wait EXCEPT !.abortedAt = Some(now), !.abortPc = call.pc]
    /\ UNCHANGED <<now, findHooks, onLog, onError, config, call, providerCalls, highlightCalls, hookLog>>

\* A driver whose abort also ends the attempt in flight.
TimeoutAbort_Interrupt ==
    /\ wait.pc = "polling" /\ signal = "armed"
    /\ signal' = "aborted"
    /\ wait' = [Settle(wait, "rejected", "aborted", <<>>, AbortFailure)
                   EXCEPT !.abortedAt = Some(now), !.abortPc = call.pc,
                          !.inFlight = FALSE, !.completed = wait.attempts]
    /\ call' = IF call.pc = "settled" THEN call
               ELSE Reject(call, "abort", AbortFailure, AbortFailure)
    /\ UNCHANGED <<now, findHooks, onLog, onError, config, providerCalls, highlightCalls, hookLog>>

\* The caller aborts the signal while the driver polls: a driver that listens
\* to the signal rejects at once, whether or not an attempt is in flight.
TimeoutAbort ==
    /\ wait.pc = "polling" /\ signal = "armed"
    /\ signal' = "aborted"
    /\ wait' = IF wait.listening
               THEN [Settle(wait, "rejected", "aborted", <<>>, AbortFailure)
                        EXCEPT !.abortedAt = Some(now), !.abortPc = call.pc]
               ELSE [wait EXCEPT !.abortedAt = Some(now), !.abortPc = call.pc]
    /\ UNCHANGED <<now, findHooks, onLog, onError, config, call, providerCalls, highlightCalls, hookLog>>

\* Time passes while the driver polls.  The reaction to a settled attempt runs
\* before any time passes, and a timer that is due fires before the clock
\* moves on.
Tick ==
    /\ wait.pc = "polling"
    /\ ~(wait.inFlight /\ call.pc = "settled")
    /\ now < wait.maxDurationMs
    /\ IF wait.retryAt = None THEN TRUE ELSE now < wait.retryAt[1]
    /\ now' = now + TickMs
    /\ UNCHANGED <<wait, signal, findHooks, onLog, onError, config, call, providerCalls, highlightCalls, hookLog>>

\* The caller has taken the outcome of waitFor and the last attempt has ended:
\* the instance is ready for the next call.
WaitForReturn ==
    /\ wait.pc = "settled" /\ ~wait.inFlight
    /\ wait' = IdleWait
    /\ signal' = "none"
    /\ now' = 0
    /\ call' = IdleCall
    /\ providerCalls' = <<>>
    /\ highlightCalls' = <<>>
    /\ hookLog' = <<>>
    /\ UNCHANGED <<findHooks, onLog, onError, config>>

\* waitFor on an instance without hooks and with the default config.
NextWait ==
    \/ \E n \in Needles, t \in WaitTimeouts, i \in WaitIntervals,
          p \in ParamsOver({InnerRegion}), a \in BOOLEAN : WaitForCall(n, t, i, p, a)
    \/ WaitForCheckNeedle
    \/ TimeoutOnResolve
    \/ TimeoutOnReject
    \/ TimeoutRetry
    \/ TimeoutExpire
    \/ TimeoutAbort
    \/ Tick
    \/ WaitForReturn
    \/ FindCheckNeedle
    \/ GetFindParametersScreenSize
    \/ FindSearch
    \/ FindMatched
    \/ FindWindowMatched

SpecWait == Init /\ [][NextWait]_vars

\* waitFor where whatever can run does: the reactions to settled promises and
\* the timers that are due run, the clock moves on, and the providers answer
\* every call.  The caller is free to call, to abort and to return or not.
SpecWaitLive ==
    /\ SpecWait
    /\ WF_vars(WaitForCheckNeedle)
    /\ WF_vars(TimeoutOnResolve)
    /\ WF_vars(TimeoutOnReject)
    /\ WF_vars(TimeoutRetry)
    /\ WF_vars(TimeoutExpire)
    /\ WF_vars(Tick)
    /\ WF_vars(FindCheckNeedle)
    /\ WF_vars(GetFindParametersScreenSize)
    /\ WF_vars(FindSearch)
    /\ WF_vars(FindMatched)
    /\ WF_vars(FindWindowMatched)

\* find and findAll of an image or a text while the caller changes
\* config.confidence, between the calls and during them.
NextConfig ==
    \/ \E c \in Confidences : SetConfidence(c)
    \/ \E n \in {ImageNeedle, TextNeedle}, p \in ParamsOver({InnerRegion}) : FindCall(n, p)
    \/ \E n \in {ImageNeedle, TextNeedle}, p \in ParamsOver({InnerRegion}) : FindAllCall(n, p)
    \/ FindCheckNeedle
    \/ GetFindParametersScreenSize
    \/ FindSearch
    \/ FindMatched
    \/ FindAllCheckNeedle
    \/ FindAllSearch
    \/ FindAllMatched
    \/ Return

SpecConfig == Init /\ [][NextConfig]_vars

\* Confidences a caller can write into config.confidence or params.confidence,
\* in percent: nothing but the type number restricts them, so 0, a negative
\* one and one above 1 are among them.
AnyConfidences == {-10, 0, 50, 100, 150}
ParamsWithConfidence ==
    [searchRegion : {None}, confidence : {None} \cup {Some(c) : c \in AnyConfidences}]

\* find and findAll of an image under a caller that sets config.confidence
\* and params.confidence to any number.
NextConfidence ==
    \/ \E c \in AnyConfidences : SetConfidence(c)
    \/ \E p \in ParamsWithConfidence : FindCall(ImageNeedle, p)
    \/ \E p \in ParamsWithConfidence : FindAllCall(ImageNeedle, p)
    \/ FindCheckNeedle
    \/ GetFindParametersScreenSize
    \/ FindSearch
    \/ FindMatched
    \/ FindAllCheckNeedle
    \/ FindAllSearch
    \/ FindAllMatched
    \/ Return

SpecConfidence == Init /\ [][NextConfidence]_vars

\* waitFor for an image or a text in a search region on the screen or one that
\* leaves it, on an instance without hooks and with the default config.
NextWaitRegions ==
    \/ \E n \in {ImageNeedle, TextNeedle}, t \in WaitTimeouts, i \in WaitIntervals,
          p \in ParamsOver(SampleRegions), a \in BOOLEAN : WaitForCall(n, t, i, p, a)
    \/ WaitForCheckNeedle
    \/ TimeoutOnResolve
    \/ TimeoutOnReject
    \/ TimeoutRetry
    \/ TimeoutExpire
    \/ TimeoutAbort
    \/ Tick
    \/ WaitForReturn
    \/ FindCheckNeedle
    \/ GetFindParametersScreenSize
    \/ FindSearch
    \/ FindMatched

SpecWaitRegions == Init /\ [][NextWaitRegions]_vars

\* on, find, findAll and waitFor called with every kind of needle, the one
\* that is not supported among them, on an instance with the default config.
NextNeedles ==
    \/ \E n \in Needles : On(n, Registered + 1)
    \/ \E n \in Needles : FindCall(n, NoParams)
    \/ \E n \in Needles : FindAllCall(n, NoParams)
    \/ \E n \in Needles, a \in BOOLEAN : WaitForCall(n, Some(ShortTimeoutMs), None, NoParams, a)
    \/ WaitForCheckNeedle
    \/ TimeoutOnResolve
    \/ TimeoutOnReject
    \/ TimeoutRetry
    \/ TimeoutExpire
    \/ TimeoutAbort
    \/ Tick
    \/ WaitForReturn
    \/ FindCheckNeedle
    \/ GetFindParametersScreenSize
    \/ FindSearch
    \/ FindMatched
    \/ FindHookDone
    \/ FindWindowMatched
    \/ FindWindowHookDone
    \/ FindAllCheckNeedle
    \/ FindAllSearch
    \/ FindAllMatched
    \/ FindAllHookDone
    \/ FindAllWindowMatched
    \/ FindAllWindowHookDone
    \/ wait.pc = "idle" /\ Return

SpecNeedles == Init /\ [][NextNeedles]_vars

(***************************************************************************)
(* highlight, capture, captureRegion, grabRegion and colorAt.              *)
(***************************************************************************)
Point(x, y) == [x |-> x, y |-> y]
\* The type guards of region.class and point.class.
isRegion(v) == DOMAIN v = {"left", "top", "width", "height"}
isPoint(v) == DOMAIN v = {"x", "y"}
\* JSON.stringify(v): the text of the value.
JSONstringify(v) == ToString(v)

SamplePoint == Point(Num(1), Num(2))
\* A region or a point argument, handed over as it is or as a promise of it;
\* one value of each set is not of the type the method asks for.
RegionArgs == [promise : BOOLEAN, value : {InnerRegion, OutsideRegion, SamplePoint}]
PointArgs == [promise : BOOLEAN, value : {SamplePoint, InnerRegion}]
\* fileName and the optional fileFormat, filePath, fileNamePrefix, fileNamePostfix.
FileArgs == [fileName : {"shot"}, fileFormat : {None, Some("jpg")},
             filePath : {None, Some("out")}, fileNamePrefix : {None, Some("pre_")},
             fileNamePostfix : {None, Some("_post")}]
\* FileType.PNG and cwd().
PNG == "png"
Cwd == "cwd"

PixelDensity == [scaleX |-> 2, scaleY |-> 2]
\* The Image a grab of the region resolves with, and a value that is no Image.
ScreenImage(region) == [kind |-> "image", grabbed |-> region, pixelDensity |-> PixelDensity]
NotAnImage == [kind |-> "undefined"]
\* What grabScreen / grabScreenRegion may answer: an Image, something else, or
\* (None) a rejection.
GrabOutcomes(region) == {Some(ScreenImage(region)), Some(NotAnImage), None}
PixelColor == [R |-> 255, G |-> 0, B |-> 0, A |-> 255]
WriterFailure == Err(<<"image writer failed">>)
ProcessorFailure == Err(<<"image processor failed">>)

\* generateOutputPath(fileName, {path, prefix, postfix, type}):
\* {path}/{prefix}{name}{postfix}.{type}, as its fragments.
generateOutputPath(fileName, params) ==
    SelectSeq(<<params.path, "/", params.prefix, fileName, params.postfix, ".", params.type>>,
              LAMBDA s : s # "")

\* A method of the screen is called: the call record it starts from.
StartCall(op, pc, arg, file, grabs) ==
    /\ call.pc = "idle" /\ wait.pc = "idle"
    /\ call' = [IdleCall EXCEPT !.op = op, !.pc = pc, !.arg = arg, !.file = file,
                                !.grabs = grabs]
    /\ highlightCalls' = <<>>
    /\ hookLog' = <<>>
    /\ UNCHANGED <<waitVars, findHooks, onLog, onError, config>>

\* highlight is called and suspends at `await regionToHighlight`.
HighlightCall(regionToHighlight) ==
    /\ StartCall("highlight", "awaitRegion", Some(regionToHighlight), None, <<>>)
    /\ providerCalls' = <<>>

\* highlight that leaves the overlay out when config.autoHighlight is on.
HighlightCheckRegion_UnlessAuto ==
    /\ call.op = "highlight" /\ call.pc = "awaitRegion"
    /\ LET highlightRegion == call.arg[1].value
       IN IF ~isRegion(highlightRegion)
          THEN LET e == Err(<<"highlight requires an Region, but received ",
                              JSONstringify(highlightRegion)>>)
               IN /\ call' = Reject(call, "region", e, e)
                  /\ UNCHANGED <<providerCalls, highlightCalls>>
          ELSE IF config.autoHighlight
          THEN /\ call' = Resolve(call, <<highlightRegion>>)
               /\ UNCHANGED <<providerCalls, highlightCalls>>
          ELSE /\ call' = [call EXCEPT !.pc = "highlightScreenRegion"]
               /\ providerCalls' = Append(providerCalls, "highlightScreenRegion")
               /\ highlightCalls' = Append(highlightCalls,
                      [region |-> highlightRegion,
                       durationMs |-> config.highlightDurationMs,
                       opacity |-> config.highlightOpacity])
    /\ UNCHANGED <<waitVars, findHooks, onLog, onError, config, hookLog>>

\* The region has resolved: the isRegion check, then the call of
\* highlightScreenRegion.
HighlightCheckRegion ==
    /\ call.op = "highlight" /\ call.pc = "awaitRegion"
    /\ LET highlightRegion == call.arg[1].value
       IN IF ~isRegion(highlightRegion)
          THEN LET e == Err(<<"highlight requires an Region, but received ",
                              JSONstringify(highlightRegion)>>)
               IN /\ call' = Reject(call, "region", e, e)
                  /\ UNCHANGED <<providerCalls, highlightCalls>>
          ELSE /\ call' = [call EXCEPT !.pc = "highlightScreenRegion"]
               /\ providerCalls' = Append(providerCalls, "highlightScreenRegion")
               /\ highlightCalls' = Append(highlightCalls,
                      [region |-> highlightRegion,
                       durationMs |-> config.highlightDurationMs,
                       opacity |-> config.highlightOpacity])
    /\ UNCHANGED <<waitVars, findHooks, onLog, onError, config, hookLog>>

\* highlightScreenRegion has answered: return highlightRegion, or its rejection.
HighlightDone ==
    /\ call.op = "highlight" /\ call.pc = "highlightScreenRegion"
    /\ \E ok \in BOOLEAN :
        call' = IF ok THEN Resolve(call, <<call.arg[1].value>>)
                ELSE Reject(call, "highlightScreenRegion", HighlightFailure, HighlightFailure)
    /\ UNCHANGED <<waitVars, findHooks, onLog, onError, config, providerCalls, highlightCalls, hookLog>>

\* The file arguments with their defaults filled in.
WithDefaults(file) ==
    [fileName |-> file.fileName,
     fileFormat |-> Coalesce(file.fileFormat, PNG),
     filePath |-> Coalesce(file.filePath, Cwd),
     fileNamePrefix |-> Coalesce(file.fileNamePrefix, ""),
     fileNamePostfix |-> Coalesce(file.fileNamePostfix, "")]

\* saveImage storing under the bare file name, without path, prefix and postfix.
SaveImage_BareName(c, image) ==
    LET f == c.file[1]
        outputPath == <<f.fileName, ".", f.fileFormat>>
    IN /\ call' = [c EXCEPT !.pc = "store", !.image = Some(image),
                            !.outputPath = Some(outputPath),
                            !.stores = Append(c.stores, [image |-> image, path |-> outputPath])]
       /\ providerCalls' = Append(providerCalls, "imageWriter.store")

\* saveImage up to its await: the output path, then the call of store.
SaveImage(c, image) ==
    LET f == c.file[1]
        outputPath == generateOutputPath(f.fileName,
                          [path |-> f.filePath, postfix |-> f.fileNamePostfix,
                           prefix |-> f.fileNamePrefix, type |-> f.fileFormat])
    IN /\ call' = [c EXCEPT !.pc = "store", !.image = Some(image),
                            !.outputPath = Some(outputPath),
                            !.stores = Append(c.stores, [image |-> image, path |-> outputPath])]
       /\ providerCalls' = Append(providerCalls, "imageWriter.store")

\* store has answered: saveImage returns outputPath, or store's rejection.
SaveImageDone ==
    /\ call.op \in {"capture", "captureRegion"} /\ call.pc = "store"
    /\ \E ok \in BOOLEAN :
        call' = IF ok THEN Resolve(call, call.outputPath)
                ELSE Reject(call, "store", WriterFailure, WriterFailure)
    /\ UNCHANGED <<waitVars, findHooks, onLog, onError, config, providerCalls, highlightCalls, hookLog>>

\* capture is called: it calls grabScreen and suspends.
CaptureCall(file) ==
    /\ StartCall("capture", "grabScreen", None, Some(WithDefaults(file)), <<None>>)
    /\ providerCalls' = <<"grabScreen">>

\* grabScreen has answered: the isImage check, then saveImage.
CaptureGrabbed ==
    /\ call.op = "capture" /\ call.pc = "grabScreen"
    /\ \E answer \in GrabOutcomes(Screen) :
        IF answer = None
        THEN /\ call' = Reject(call, "grabScreen", ScreenFailure, ScreenFailure)
             /\ UNCHANGED providerCalls
        ELSE IF ~isImage(answer[1])
        THEN LET e == Err(<<"capture requires an Image, but received ",
                            JSONstringify(answer[1])>>)
             IN /\ call' = Reject([call EXCEPT !.image = answer], "image", e, e)
                /\ UNCHANGED providerCalls
        ELSE SaveImage(call, answer[1])
    /\ UNCHANGED <<waitVars, findHooks, onLog, onError, config, highlightCalls, hookLog>>

\* captureRegion is called and suspends at `await regionToCapture`.
CaptureRegionCall(file, regionToCapture) ==
    /\ StartCall("captureRegion", "awaitRegion", Some(regionToCapture),
                 Some(WithDefaults(file)), <<>>)
    /\ providerCalls' = <<>>

\* The region has resolved: the isRegion check, then the call of
\* grabScreenRegion.
CaptureRegionCheckRegion ==
    /\ call.op = "captureRegion" /\ call.pc = "awaitRegion"
    /\ LET targetRegion == call.arg[1].value
       IN IF ~isRegion(targetRegion)
          THEN LET e == Err(<<"captureRegion requires an Region, but received ",
                              JSONstringify(targetRegion)>>)
               IN /\ call' = Reject(call, "region", e, e)
                  /\ UNCHANGED providerCalls
          ELSE /\ call' = [call EXCEPT !.pc = "grabScreenRegion",
                                       !.grabs = Append(call.grabs, Some(targetRegion))]
               /\ providerCalls' = Append(providerCalls, "grabScreenRegion")
    /\ UNCHANGED <<waitVars, findHooks, onLog, onError, config, highlightCalls, hookLog>>

\* grabScreenRegion has answered: the isImage check, then saveImage.
CaptureRegionGrabbed ==
    /\ call.op = "captureRegion" /\ call.pc = "grabScreenRegion"
    /\ \E answer \in GrabOutcomes(call.arg[1].value) :
        IF answer = None
        THEN /\ call' = Reject(call, "grabScreenRegion", ScreenFailure, ScreenFailure)
             /\ UNCHANGED providerCalls
        ELSE IF ~isImage(answer[1])
        THEN LET e == Err(<<"captureRegion requires an Image, but received ",
                            JSONstringify(answer[1])>>)
             IN /\ call' = Reject([call EXCEPT !.image = answer], "image", e, e)
                /\ UNCHANGED providerCalls
        ELSE SaveImage(call, answer[1])
    /\ UNCHANGED <<waitVars, findHooks, onLog, onError, config, highlightCalls, hookLog>>

\* grabRegion is called and suspends at `await regionToGrab`.
GrabRegionCall(regionToGrab) ==
    /\ StartCall("grabRegion", "awaitRegion", Some(regionToGrab), None, <<>>)
    /\ providerCalls' = <<>>

\* The region has resolved: the isRegion check, then the call of
\* grabScreenRegion, whose promise grabRegion returns.
GrabRegionCheckRegion ==
    /\ call.op = "grabRegion" /\ call.pc = "awaitRegion"
    /\ LET targetRegion == call.arg[1].value
       IN IF ~isRegion(targetRegion)
          THEN LET e == Err(<<"grabRegion requires an Region, but received ",
                              JSONstringify(targetRegion)>>)
               IN /\ call' = Reject(call, "region", e, e)
                  /\ UNCHANGED providerCalls
          ELSE /\ call' = [call EXCEPT !.pc = "grabScreenRegion",
                                       !.grabs = Append(call.grabs, Some(targetRegion))]
               /\ providerCalls' = Append(providerCalls, "grabScreenRegion")
    /\ UNCHANGED <<waitVars, findHooks, onLog, onError, config, highlightCalls, hookLog>>

\* grabScreenRegion has answered: grabRegion settles as it did.
GrabRegionDone ==
    /\ call.op = "grabRegion" /\ call.pc = "grabScreenRegion"
    /\ \E answer \in GrabOutcomes(call.arg[1].value) :
        call' = IF answer = None
                THEN Reject(call, "grabScreenRegion", ScreenFailure, ScreenFailure)
                ELSE Resolve([call EXCEPT !.image = answer], answer)
    /\ UNCHANGED <<waitVars, findHooks, onLog, onError, config, providerCalls, highlightCalls, hookLog>>

\* colorAt is called: it calls grabScreen and suspends.
ColorAtCall(point) ==
    /\ StartCall("colorAt", "grabScreen", Some(point), None, <<None>>)
    /\ providerCalls' = <<"grabScreen">>

\* grabScreen has answered: colorAt goes on to `await point`.
ColorAtGrabbed ==
    /\ call.op = "colorAt" /\ call.pc = "grabScreen"
    /\ \E answer \in GrabOutcomes(Screen) :
        call' = IF answer = None
                THEN Reject(call, "grabScreen", ScreenFailure, ScreenFailure)
                ELSE [call EXCEPT !.pc = "awaitPoint", !.image = answer]
    /\ UNCHANGED <<waitVars, findHooks, onLog, onError, config, providerCalls, highlightCalls, hookLog>>

\* The point has resolved: the isPoint check, the scaling by the pixel
\* density of the screen content (a TypeError when that content has none),
\* then the call of the image processor's colorAt.
ColorAtCheckPoint ==
    /\ call.op = "colorAt" /\ call.pc = "awaitPoint"
    /\ LET inputPoint == call.arg[1].value
           screenContent == call.image[1]
       IN IF ~isPoint(inputPoint)
          THEN LET e == Err(<<"colorAt requires a Point, but received ",
                              JSONstringify(inputPoint)>>)
               IN /\ call' = Reject(call, "point", e, e)
                  /\ UNCHANGED providerCalls
          ELSE IF ~isImage(screenContent)
          THEN LET e == Err(<<"TypeError: Cannot read properties of undefined">>)
               IN /\ call' = Reject(call, "pixelDensity", e, e)
                  /\ UNCHANGED providerCalls
          ELSE /\ call' = [call EXCEPT !.pc = "colorAt"]
               /\ providerCalls' = Append(providerCalls, "imageProcessor.colorAt")
    /\ UNCHANGED <<waitVars, findHooks, onLog, onError, config, highlightCalls, hookLog>>

\* The image processor has answered: colorAt settles as it did.
ColorAtDone ==
    /\ call.op = "colorAt" /\ call.pc = "colorAt"
    /\ \E ok \in BOOLEAN :
        call' = IF ok THEN Resolve(call, <<PixelColor>>)
                ELSE Reject(call, "colorAt", ProcessorFailure, ProcessorFailure)
    /\ UNCHANGED <<waitVars, findHooks, onLog, onError, config, providerCalls, highlightCalls, hookLog>>

NextCapture ==
    \/ \E b \in BOOLEAN : SetAutoHighlight(b)
    \/ \E r \in RegionArgs : HighlightCall(r)
    \/ HighlightCheckRegion
    \/ HighlightDone
    \/ \E f \in FileArgs : CaptureCall(f)
    \/ CaptureGrabbed
    \/ \E f \in FileArgs, r \in RegionArgs : CaptureRegionCall(f, r)
    \/ CaptureRegionCheckRegion
    \/ CaptureRegionGrabbed
    \/ SaveImageDone
    \/ \E r \in RegionArgs : GrabRegionCall(r)
    \/ GrabRegionCheckRegion
    \/ GrabRegionDone
    \/ \E p \in PointArgs : ColorAtCall(p)
    \/ ColorAtGrabbed
    \/ ColorAtCheckPoint
    \/ ColorAtDone
    \/ Return

\* The screen under callers of highlight, capture, captureRegion, grabRegion
\* and colorAt.
SpecCapture == Init /\ [][NextCapture]_vars

(***************************************************************************)
(* grab()                                                                  *)
(***************************************************************************)
\* grab is called: it calls grabScreen and returns its promise.
GrabCall ==
    /\ StartCall("grab", "grabScreen", None, None, <<None>>)
    /\ providerCalls' = <<"grabScreen">>

\* grabScreen has answered: grab settles as it did.
GrabDone ==
    /\ call.op = "grab" /\ call.pc = "grabScreen"
    /\ \E answer \in GrabOutcomes(Screen) :
        call' = IF answer = None
                THEN Reject(call, "grabScreen", ScreenFailure, ScreenFailure)
                ELSE Resolve([call EXCEPT !.image = answer], answer)
    /\ UNCHANGED <<waitVars, findHooks, onLog, onError, config, providerCalls, highlightCalls, hookLog>>

(***************************************************************************)
(* Every operation of the screen under one caller: on and the config       *)
(* written between the steps of find, findAll, waitFor, highlight,         *)
(* capture, captureRegion, grab, grabRegion and colorAt.                   *)
(***************************************************************************)
NextAll ==
    \/ \E n \in {ImageNeedle, WindowNeedle} : On(n, Registered + 1)
    \/ \E b \in BOOLEAN : SetAutoHighlight(b)
    \/ \E n \in {ImageNeedle, WindowNeedle} : FindCall(n, NoParams)
    \/ \E n \in {ImageNeedle, WindowNeedle} : FindAllCall(n, NoParams)
    \/ \E a \in BOOLEAN : WaitForCall(ImageNeedle, Some(ShortTimeoutMs), None, NoParams, a)
    \/ WaitForCheckNeedle
    \/ TimeoutOnResolve
    \/ TimeoutOnReject
    \/ TimeoutRetry
    \/ TimeoutExpire
    \/ TimeoutAbort
    \/ Tick
    \/ WaitForReturn
    \/ Find
    \/ FindAll
    \/ \E r \in RegionArgs : HighlightCall(r)
    \/ HighlightCheckRegion
    \/ HighlightDone
    \/ \E f \in FileArgs : CaptureCall(f)
    \/ CaptureGrabbed
    \/ \E f \in FileArgs, r \in RegionArgs : CaptureRegionCall(f, r)
    \/ CaptureRegionCheckRegion
    \/ CaptureRegionGrabbed
    \/ SaveImageDone
    \/ GrabCall
    \/ GrabDone
    \/ \E r \in RegionArgs : GrabRegionCall(r)
    \/ GrabRegionCheckRegion
    \/ GrabRegionDone
    \/ \E p \in PointArgs : ColorAtCall(p)
    \/ ColorAtGrabbed
    \/ ColorAtCheckPoint
    \/ ColorAtDone
    \/ wait.pc = "idle" /\ Return

SpecAll == Init /\ [][NextAll]_vars

(***************************************************************************)
(* Two finds in progress on the same instance.  The instance has no lock:  *)
(* a second find may be called while the first is suspended at an await,   *)
(* and from then on the segments of the two calls interleave in any order. *)
(* call is the call whose segment runs next and call.other the suspended   *)
(* one; the registry, the config and the providers are shared.             *)
(***************************************************************************)
\* The caller calls find while a find is suspended at one of its awaits: the
\* new call runs up to its `await searchInput`.
FindCallConcurrent(searchInput, params) ==
    /\ call.op = "find" /\ call.status = "pending" /\ call.other = None
    /\ wait.pc = "idle"
    /\ call.params.searchRegion # params.searchRegion
    /\ call' = [IdleCall EXCEPT !.op = "find", !.pc = "awaitNeedle",
                                !.needle = searchInput, !.params = params,
                                !.hooksAtCall = Coalesce(getHooksForInput(searchInput), <<>>),
                                !.other = Some(call)]
    /\ UNCHANGED <<waitVars, findHooks, onLog, onError, config, providerCalls,
                   highlightCalls, hookLog>>

\* The search region kept on the instance instead of in the call.
Switch_SharedSearchRegion ==
    /\ call.other # None
    /\ call' = [call.other[1] EXCEPT !.searchRegion = call.searchRegion,
                                     !.other = Some([call EXCEPT !.other = None])]
    /\ UNCHANGED <<waitVars, findHooks, onLog, onError, config, providerCalls,
                   highlightCalls, hookLog>>

\* The promise the other call awaits settles next: its segment is the one to
\* run. Every local of a call (params, minMatch, searchRegion, matchRequest,
\* matchResult, possibleHooks, the position of its loop) stays with the call.
Switch ==
    /\ call.other # None
    /\ call' = [call.other[1] EXCEPT !.other = Some([call EXCEPT !.other = None])]
    /\ UNCHANGED <<waitVars, findHooks, onLog, onError, config, providerCalls,
                   highlightCalls, hookLog>>

\* Both promises have been consumed by the caller.
ReturnBoth ==
    /\ IF call.other = None THEN FALSE ELSE call.other[1].pc = "settled"
    /\ Return

\* The two finds are of the same image, each in one of the sample regions or
\* on the whole screen, with the confidence of the config.
RegionParams == {p \in ParamsOver(SampleRegions) : p.confidence = None}

NextTwo ==
    \/ On(ImageNeedle, Registered + 1)
    \/ \E p \in RegionParams : FindCall(ImageNeedle, p)
    \/ \E p \in RegionParams : FindCallConcurrent(ImageNeedle, p)
    \/ Switch
    \/ FindCheckNeedle
    \/ GetFindParametersScreenSize
    \/ FindSearch
    \/ FindMatched
    \/ FindHookDone
    \/ ReturnBoth

SpecTwo == Init /\ [][NextTwo]_vars

(***************************************************************************)
(* Properties.                                                             *)
(***************************************************************************)
RegionNeedle(n) == n.kind \in {"image", "text"}
FinderCalls == {"imageFinder.findMatch", "textFinder.findMatch",
                "imageFinder.findMatches", "textFinder.findMatches",
                "windowFinder.findMatch", "windowFinder.findMatches"}
Called(fns) == {k \in 1..Len(providerCalls) : providerCalls[k] \in fns}

\* The uniform error of find / findAll for the needle id:
\* Error("Searching for <id> failed. Reason: '...'").
IsWrappedFor(e, id) ==
    /\ e.type = "Error"
    /\ Len(e.msg) >= 4
    /\ e.msg[1] = "Searching for "
    /\ e.msg[2] = id
    /\ e.msg[3] = " failed. Reason: '"
    /\ e.msg[Len(e.msg)] = "'"

\* The uniform error for the needle id with the cause as `${cause}` shows it.
WrappedCause(id, cause) ==
    Err(<<"Searching for ", id, " failed. Reason: '">>
        \o (IF cause.type = "Error" THEN <<"Error: ">> ELSE <<>>) \o cause.msg
        \o <<"'">>)

\* A search region as C1 describes the ones to reject.
InvalidSearchRegion(r, screen) ==
    \/ r.left.nan \/ r.top.nan \/ r.width.nan \/ r.height.nan
    \/ /\ ~(r.left.nan \/ r.top.nan \/ r.width.nan \/ r.height.nan)
       /\ \/ r.left.v < 0 \/ r.top.v < 0 \/ r.width.v < 0 \/ r.height.v < 0
          \/ r.width.v < 2 \/ r.height.v < 2
          \/ r.left.v + r.width.v > screen.width.v
          \/ r.top.v + r.height.v > screen.height.v

\* C1: a find whose search region is negative somewhere, has a NaN component,
\* is less than 2 wide or high, or leaves the screen never gets as far as the
\* finder, never resolves, and rejects with the uniform error of its needle.
C1_InvalidRegionRejected ==
    (/\ call.op = "find" /\ RegionNeedle(call.needle)
     /\ call.params.searchRegion # None
     /\ InvalidSearchRegion(call.params.searchRegion[1], Screen))
    => /\ Called(FinderCalls) = {}
       /\ call.pc \in {"awaitNeedle", "screenSize", "grabScreenRegion", "settled"}
       /\ call.status # "resolved"
       /\ call.status = "rejected" => IsWrappedFor(call.error, call.needle.id)

\* A find rejected by validateSearchRegion for a region of non-negative numbers,
\* at least 2 x 2, that leaves the screen.
C1_Witness ==
    /\ call.op = "find" /\ call.status = "rejected" /\ call.failedAt = "validate"
    /\ call.params.searchRegion # None
    /\ LET r == call.params.searchRegion[1]
       IN /\ ~(r.left.nan \/ r.top.nan \/ r.width.nan \/ r.height.nan)
          /\ r.left.v >= 0 /\ r.top.v >= 0 /\ r.width.v >= 2 /\ r.height.v >= 2
          /\ r.left.v + r.width.v > MaxCoord

\* C2: the region a successful image/text find returns is the match location
\* moved by the origin of the search region (params.searchRegion, else the
\* screen size), its width and height unchanged.
C2_ResultIsTranslatedMatch ==
    (call.op = "find" /\ RegionNeedle(call.needle) /\ call.status = "resolved")
    => LET searchRegion == IF call.params.searchRegion # None
                           THEN call.params.searchRegion[1] ELSE Screen
           location == call.matchResults[1].location
       IN call.value = <<[left |-> Num(searchRegion.left.v + location.left.v),
                          top |-> Num(searchRegion.top.v + location.top.v),
                          width |-> location.width,
                          height |-> location.height]>>

\* A find that resolved for a search region away from the screen's origin.
C2_Witness ==
    /\ call.op = "find" /\ call.status = "resolved"
    /\ call.params.searchRegion = Some(InnerRegion)

\* The confidence a find requires: params.confidence, else config.confidence.
RequiredConfidence ==
    IF call.params.confidence # None THEN call.params.confidence[1] ELSE config.confidence

\* C3: a find whose finder answered with a confidence below the required one
\* rejects; with a confidence of at least the required one (no hook and no
\* highlight failing) it resolves with the translated region.
C3_ConfidenceDecides ==
    (/\ call.op = "find" /\ RegionNeedle(call.needle)
     /\ call.pc = "settled" /\ call.matchResults # <<>>)
    => /\ call.matchResults[1].confidence < RequiredConfidence
            => call.status = "rejected"
       /\ (/\ call.matchResults[1].confidence >= RequiredConfidence
           /\ call.failedAt = "")
            => call.status = "resolved"

\* The log of the hooks run one after the other, each to its end, on result 1.
HookRuns(hooks) ==
    [k \in 1..(2 * Len(hooks)) |->
        [ev |-> IF k % 2 = 1 THEN "start" ELSE "end",
         hook |-> hooks[(k + 1) \div 2],
         result |-> 1,
         arg |-> IF isWindowQuery(call.needle) THEN call.windows[1]
                 ELSE call.matchResults[1]]]

\* The callbacks registered for a needle now.
HooksOf(needle) == Coalesce(MapGet(findHooks, needle.obj), <<>>)

\* C4: a successful find of a needle whose hooks were registered before the
\* call has invoked each of them once, in registration order, each started
\* only when the one before it had completed.
C4_HooksOnceInOrder ==
    (/\ call.op = "find" /\ call.status = "resolved"
     /\ HooksOf(call.needle) = call.hooksAtCall)
    => hookLog = HookRuns(call.hooksAtCall)

\* A successful find of an image on which MaxHooks hooks were registered.
C4_Witness ==
    /\ call.op = "find" /\ call.status = "resolved" /\ isImage(call.needle)
    /\ Len(call.hooksAtCall) = MaxHooks
    /\ Len(hookLog) = 2 * MaxHooks

\* The results a findAll got: match results or windows.
ResultsOf(c) == IF isWindowQuery(c.needle) THEN Len(c.windows) ELSE Len(c.matchResults)
Events(ev, h, j) == {k \in 1..Len(hookLog) :
                       hookLog[k].ev = ev /\ hookLog[k].hook = h /\ hookLog[k].result = j}

\* C5: a successful findAll of a needle with N hooks (registered before the
\* call) and M results has invoked every hook once on every result, N * M
\* invocations, and started none before the one before it had completed.
C5_FindAllHooksPerResult ==
    (/\ call.op = "findAll" /\ call.status = "resolved"
     /\ HooksOf(call.needle) = call.hooksAtCall)
    => /\ \A i \in 1..Len(call.hooksAtCall), j \in 1..ResultsOf(call) :
            /\ Cardinality(Events("start", call.hooksAtCall[i], j)) = 1
            /\ Cardinality(Events("end", call.hooksAtCall[i], j)) = 1
       /\ Len(hookLog) = 2 * Len(call.hooksAtCall) * ResultsOf(call)
       /\ \A k \in 1..Len(hookLog) :
            k % 2 = 1 => /\ hookLog[k].ev = "start"
                         /\ hookLog[k + 1].ev = "end"
                         /\ hookLog[k + 1].hook = hookLog[k].hook
                         /\ hookLog[k + 1].result = hookLog[k].result

\* A successful findAll with MaxHooks hooks and MaxResults match results.
C5_Witness ==
    /\ call.op = "findAll" /\ call.status = "resolved"
    /\ Len(call.hooksAtCall) = MaxHooks /\ Len(call.matchResults) = MaxResults
    /\ Len(hookLog) = 2 * MaxHooks * MaxResults

\* C6: a find or findAll that failed in the screen provider (screenSize,
\* grabScreenRegion), in the validation of the search region or in a finder
\* rejects with the one error that carries the needle's id and the cause as a
\* string.
C6_FailuresAreWrapped ==
    (/\ call.op \in {"find", "findAll"} /\ call.status = "rejected"
     /\ call.failedAt \in {"screenSize", "grabScreenRegion", "validate",
                           "finder", "windowFinder"})
    => call.error = WrappedCause(call.needle.id, call.cause)

\* The finder rejected with the string "Search failed." and find of the image
\* rejects with Searching for image failed. Reason: 'Search failed.'
C6_Witness ==
    /\ call.op = "find" /\ call.status = "rejected" /\ call.failedAt = "finder"
    /\ call.error = Err(<<"Searching for ", "image", " failed. Reason: '", "Search failed.", "'">>)

\* C7 as stated: every rejection of find or findAll has the uniform shape.
C7_EveryRejectionWrapped ==
    (call.op \in {"find", "findAll"} /\ call.status = "rejected")
    => IsWrappedFor(call.error, call.needle.id)

\* C7, amended: a rejection of find or findAll caused by a provider call, the
\* validation of the search region or a hook has the uniform shape; the error
\* of the needle check and, in find, the failure of the automatic highlight
\* reach the caller as they are.
C7_RejectionShapes ==
    (call.op \in {"find", "findAll"} /\ call.status = "rejected")
    => IF call.failedAt = "needle"
       THEN call.error = Err(<<IF call.op = "find"
                               THEN "find requires an Image, a text query or a window query, but received "
                               ELSE "findAll requires an Image, a text query or a window query, but received ",
                               call.needle.id>>)
       ELSE IF call.failedAt = "highlight"
       THEN call.op = "find" /\ call.error = HighlightFailure
       ELSE /\ call.failedAt \in {"windowFinder", "screenSize", "grabScreenRegion",
                                  "validate", "finder", "hook"}
            /\ IsWrappedFor(call.error, call.needle.id)

\* A find whose automatic highlight failed.
C7_Witness ==
    /\ call.op = "find" /\ call.status = "rejected" /\ call.failedAt = "highlight"
    /\ Called({"highlightScreenRegion"}) # {}

\* C8: once a hook has thrown during find, find has rejected and has invoked
\* no further hook: the throw is the last entry of the log of hooks.
C8_ThrowingHookAborts ==
    (call.op = "find" /\ \E k \in 1..Len(hookLog) : hookLog[k].ev = "throw")
    => /\ call.status = "rejected"
       /\ \A k \in 1..Len(hookLog) : hookLog[k].ev = "throw" => k = Len(hookLog)

\* The first of MaxHooks hooks threw.
C8_Witness ==
    /\ call.op = "find" /\ Len(call.possibleHooks) = MaxHooks
    /\ Len(hookLog) = 2 /\ hookLog[2].ev = "throw"

\* C9 as stated: the caller of a find in which a hook threw receives the hook's
\* own error.
C9_HookErrorUnwrapped ==
    (call.op = "find" /\ call.status = "rejected" /\ call.failedAt = "hook")
    => call.error = HookFailure

\* C9, amended: the caller of a find in which a hook threw receives the uniform
\* error, with the hook's error as its reason.
C9_HookErrorWrapped ==
    (call.op = "find" /\ call.status = "rejected" /\ call.failedAt = "hook")
    => call.error = Err(<<"Searching for ", call.needle.id, " failed. Reason: '",
                          "Error: ", "hook failed", "'">>)

\* A find of a window rejected because a hook threw.
C9_Witness ==
    /\ call.op = "find" /\ call.status = "rejected" /\ call.failedAt = "hook"
    /\ isWindowQuery(call.needle)

\* C10: waitFor resolves with the result of the first attempt that succeeds, at
\* the moment that attempt succeeds: once an attempt has succeeded before the
\* timeout and before an abort, no time passes until waitFor is resolved with
\* that attempt's result, no retry is pending and no other attempt starts.
C10_FirstSuccessResolves ==
    /\ (wait.pc = "polling" /\ wait.inFlight /\ call.status = "resolved")
       => /\ now = call.settledAt
          /\ wait.retryAt = None
    /\ (wait.successes > 0 /\ wait.outcome \notin {"timedOut", "aborted"})
       => /\ wait.status = "resolved" /\ wait.outcome = "matched"
          /\ wait.successes = 1
          /\ call.op = "find" /\ call.status = "resolved"
          /\ wait.value = call.value
          /\ wait.settledAt = call.settledAt /\ now = wait.settledAt
          /\ wait.retryAt = None /\ ~wait.inFlight
    /\ wait.status = "resolved" => wait.successes = 1

\* waitFor resolved by its second attempt, one interval after the first failed.
C10_Witness ==
    /\ wait.status = "resolved" /\ wait.attempts = 2
    /\ call.status = "resolved" /\ wait.value = call.value /\ wait.value # <<>>
    /\ now >= wait.updateIntervalMs /\ now < wait.maxDurationMs

\* The timeoutMs of the waitFor call: the caller's, else 5000.
EffectiveTimeoutMs == IF wait.timeoutMs # None THEN wait.timeoutMs[1] ELSE 5000
\* The updateInterval of the waitFor call: the caller's, else 500.
EffectiveIntervalMs == IF wait.updateInterval # None THEN wait.updateInterval[1] ELSE 500

\* C11: a waitFor none of whose attempts succeeded and whose signal did not
\* abort stays pending for timeoutMs (the caller's, else 5000), retrying every
\* updateInterval (the caller's, else 500), and settles only by rejecting with
\* "Action timed out after <timeoutMs> ms", at timeoutMs or later.
C11_TimeoutAfterTimeoutMs ==
    (/\ wait.pc \in {"polling", "settled"} /\ wait.outcome # "needle"
     /\ wait.successes = 0 /\ signal # "aborted")
    => /\ wait.retryAt # None => wait.retryAt[1] - now <= EffectiveIntervalMs
       /\ now < EffectiveTimeoutMs => wait.pc = "polling"
       /\ wait.pc = "settled"
            => /\ wait.status = "rejected" /\ wait.outcome = "timedOut"
               /\ wait.error = [type |-> "string",
                                msg |-> <<"Action timed out after ",
                                          ToString(EffectiveTimeoutMs), " ms">>]
               /\ wait.settledAt >= EffectiveTimeoutMs

\* A waitFor with the default timeout and interval, timed out after its tenth
\* attempt failed.
C11_Witness ==
    /\ wait.pc = "settled" /\ wait.outcome = "timedOut"
    /\ wait.timeoutMs = None /\ wait.updateInterval = None
    /\ wait.settledAt >= 5000 /\ wait.attempts = 10 /\ wait.completed = 10
    /\ wait.successes = 0 /\ signal = "none"

\* C12: a waitFor none of whose attempts succeeded and whose signal
\* (params.abort) aborted at a time t before timeoutMs is rejected with
\* "Action aborted by signal" at t, before timeoutMs, and not with the timeout
\* message.
C12_AbortBeforeTimeout ==
    (/\ signal = "aborted" /\ wait.abortedAt # None
     /\ wait.successes = 0)
    => (wait.abortedAt[1] < EffectiveTimeoutMs
        => /\ wait.pc = "settled" /\ wait.status = "rejected"
           /\ wait.error = [type |-> "string", msg |-> <<"Action aborted by signal">>]
           /\ wait.error # [type |-> "string",
                            msg |-> <<"Action timed out after ",
                                      ToString(EffectiveTimeoutMs), " ms">>]
           /\ wait.settledAt = wait.abortedAt[1]
           /\ wait.settledAt < EffectiveTimeoutMs)

\* A waitFor with the default timeout and interval aborted at 1000 ms, after
\* attempts that failed.
C12_Witness ==
    /\ signal = "aborted" /\ wait.abortedAt = <<2 * TickMs>>
    /\ wait.timeoutMs = None /\ wait.updateInterval = None
    /\ wait.completed >= 2 /\ wait.successes = 0
    /\ wait.status = "rejected" /\ wait.outcome = "aborted"

\* C13: the attempts of one waitFor call do not overlap: an attempt starts only
\* when every earlier attempt has resolved or rejected, so at most one attempt
\* is in flight at any time, and no retry is pending while one is.
C13_AttemptsDoNotOverlap ==
    wait.pc # "idle"
    => /\ wait.attempts - wait.completed \in {0, 1}
       /\ wait.inFlight <=> (wait.attempts - wait.completed = 1)
       /\ wait.inFlight => wait.retryAt = None
       /\ (wait.inFlight /\ call.pc # "settled") => call.op = "find"

\* The third attempt in flight, two having failed.
C13_Witness ==
    /\ wait.pc = "polling" /\ wait.attempts = 3 /\ wait.completed = 2
    /\ wait.inFlight /\ call.pc = "finder"

\* The step in which the signal of the waitFor call aborts.
SignalAborts == signal = "armed" /\ signal' = "aborted"

\* C14: the step in which the signal aborts, with an attempt in flight or with
\* the driver waiting for its next retry, is the step in which waitFor is
\* rejected with the abort error: no time passes and no attempt has to end.
C14_AbortIsImmediate ==
    [][SignalAborts
       => /\ wait'.pc = "settled" /\ wait'.status = "rejected"
          /\ wait'.outcome = "aborted"
          /\ wait'.error = [type |-> "string", msg |-> <<"Action aborted by signal">>]
          /\ wait'.settledAt = now /\ now' = now
          /\ wait'.retryAt = None]_vars

\* waitFor rejected as aborted while its attempt is still in flight, waiting
\* for the finder.
C14_Witness ==
    /\ wait.pc = "settled" /\ wait.outcome = "aborted"
    /\ wait.inFlight /\ call.pc = "finder" /\ call.status = "pending"

WaitTerminal ==
    /\ wait.pc = "settled"
    /\ \/ wait.outcome = "matched" /\ wait.status = "resolved"
       \/ wait.outcome = "timedOut" /\ wait.status = "rejected"
       \/ wait.outcome = "aborted" /\ wait.status = "rejected"

\* C16: a waitFor call with an image, a text query or a window query, each of
\* whose attempts ends, settles as matched, timed out or aborted, and what it
\* has settled with stays as it is.
C16_OneTerminalOutcome ==
    /\ (wait.pc \in {"awaitNeedle", "polling"} /\ wait.needle \in SupportedNeedles)
          ~> WaitTerminal
    /\ [][wait.pc = "settled"
          => \/ wait'.pc = "idle"
             \/ /\ wait'.pc = "settled"
                /\ wait'.outcome = wait.outcome /\ wait'.status = wait.status
                /\ wait'.value = wait.value /\ wait'.error = wait.error]_vars

\* A waitFor that had timed out when its last attempt found its match.
C16_Witness ==
    /\ wait.pc = "settled" /\ wait.outcome = "timedOut" /\ wait.status = "rejected"
    /\ wait.successes = 1 /\ ~wait.inFlight /\ call.status = "resolved"

\* The callbacks the calls of on so far registered for a needle object, in the
\* order of the calls.
RECURSIVE RegisteredFor(_, _)
RegisteredFor(obj, log) ==
    IF log = <<>> THEN <<>>
    ELSE LET rest == RegisteredFor(obj, SubSeq(log, 1, Len(log) - 1))
             last == log[Len(log)]
         IN IF last.obj = obj THEN Append(rest, last.callback) ELSE rest

\* C17: after any calls of on, the list the registry holds for a needle is the
\* callbacks registered for that needle, in the order of registration, and a
\* needle nothing was registered for has no list.
C17_HooksInRegistrationOrder ==
    /\ DOMAIN findHooks = {onLog[k].obj : k \in 1..Len(onLog)}
    /\ \A n \in SupportedNeedles :
          Coalesce(MapGet(findHooks, n.obj), <<>>) = RegisteredFor(n.obj, onLog)

\* MaxHooks callbacks registered for the same needle.
C17_Witness ==
    /\ Len(onLog) = MaxHooks
    /\ \E n \in SupportedNeedles : Len(Coalesce(MapGet(findHooks, n.obj), <<>>)) = MaxHooks

\* The ids of the callbacks a find has started, in the order it started them.
StartedHooks ==
    LET starts == SelectSeq(hookLog, LAMBDA e : e.ev = "start")
    IN [k \in 1..Len(starts) |-> starts[k].hook]

\* The callbacks registered for any needle object that has the given id, in
\* the order of registration.
RegisteredForId(id) ==
    LET entries == SelectSeq(onLog,
                       LAMBDA e : \E n \in KeyNeedles : n.obj = e.obj /\ n.id = id)
    IN [k \in 1..Len(entries) |-> entries[k].callback]

\* C18 as stated: a successful find has invoked the callbacks registered for
\* the needles that have the id of its needle, and no others.
C18_KeyedById ==
    (call.op = "find" /\ call.status = "resolved")
    => StartedHooks = RegisteredForId(call.needle.id)

\* C18, amended: a successful find has invoked the callbacks registered for
\* the needle object it was called with, and no others: not those registered
\* for another object, whether that has another id or the same.
C18_KeyedByObject ==
    (call.op = "find" /\ call.status = "resolved")
    => /\ StartedHooks = RegisteredFor(call.needle.obj, onLog)
       /\ \A k \in 1..Len(onLog) :
             onLog[k].obj # call.needle.obj
             => \A j \in 1..Len(hookLog) : hookLog[j].hook # onLog[k].callback

\* A successful find of an image that invoked the one callback registered for
\* its object and not the one registered for the other object with its id.
C18_Witness ==
    /\ call.op = "find" /\ call.status = "resolved" /\ call.needle = ImageCopy
    /\ Len(onLog) = 2
    /\ \E k \in 1..2 : onLog[k].obj = ImageNeedle.obj
    /\ \E k \in 1..2 : onLog[k].obj = ImageCopy.obj
    /\ Len(StartedHooks) = 1

\* The k-th match of the call as a region of the screen: its location moved by
\* the origin of the search region.
AbsoluteRegion(k) ==
    LET searchRegion == IF call.params.searchRegion # None
                        THEN call.params.searchRegion[1] ELSE Screen
        location == call.matchResults[k].location
    IN [left |-> Num(searchRegion.left.v + location.left.v),
        top |-> Num(searchRegion.top.v + location.top.v),
        width |-> location.width,
        height |-> location.height]

\* The arguments of a highlightScreenRegion call for a region under the config.
HighlightOf(region) ==
    [region |-> region, durationMs |-> config.highlightDurationMs,
     opacity |-> config.highlightOpacity]

\* C19: an image/text find that got its match and its hooks done and read
\* config.autoHighlight as true has called highlightScreenRegion once, with
\* the absolute region, config.highlightDurationMs and config.highlightOpacity,
\* stays pending while that call is, and resolves with that region once the
\* highlight has ended; one that read false has made no highlight call and
\* has resolved with the absolute region.
C19_AutoHighlightOnce ==
    (call.op = "find" /\ RegionNeedle(call.needle) /\ call.autoHighlight # None)
    => IF call.autoHighlight[1]
       THEN /\ highlightCalls = <<HighlightOf(AbsoluteRegion(1))>>
            /\ Cardinality(Called({"highlightScreenRegion"})) = 1
            /\ call.pc = "highlight" => call.status = "pending"
            /\ call.status = "resolved"
                 => /\ call.value = <<AbsoluteRegion(1)>>
                    /\ call.background = 0
       ELSE /\ highlightCalls = <<>>
            /\ Called({"highlightScreenRegion"}) = {}
            /\ call.status = "resolved"
            /\ call.value = <<AbsoluteRegion(1)>>

\* A find with autoHighlight resolved, after its highlight, for a search
\* region away from the origin of the screen.
C19_Witness ==
    /\ call.op = "find" /\ call.status = "resolved"
    /\ call.autoHighlight = <<TRUE>>
    /\ call.params.searchRegion = Some(InnerRegion)
    /\ Len(highlightCalls) = 1

\* C20: an image/text findAll that read config.autoHighlight as true has
\* started one highlight per result region, in order, and has resolved with
\* all the result regions, however many of the highlights are still running.
C20_FindAllHighlightsNotAwaited ==
    (call.op = "findAll" /\ RegionNeedle(call.needle) /\ call.autoHighlight = <<TRUE>>)
    => /\ call.status = "resolved"
       /\ Len(call.value) = Len(call.matchResults)
       /\ \A k \in 1..Len(call.matchResults) : call.value[k] = AbsoluteRegion(k)
       /\ Len(highlightCalls) = Len(call.matchResults)
       /\ \A k \in 1..Len(call.matchResults) :
             highlightCalls[k] = HighlightOf(AbsoluteRegion(k))
       /\ call.background \in 0..Len(call.matchResults)

\* A findAll of MaxResults results resolved while all its highlights run.
C20_Witness ==
    /\ call.op = "findAll" /\ call.status = "resolved"
    /\ call.autoHighlight = <<TRUE>>
    /\ Len(call.value) = MaxResults /\ Len(highlightCalls) = MaxResults
    /\ call.background = MaxResults

\* C21: an image/text findAll that resolved returns one region per result of
\* the finder, in the finder's order, equal results kept: the k-th region is
\* the location of the k-th result moved by the origin of the search region.
C21_FindAllKeepsProviderOrder ==
    (call.op = "findAll" /\ RegionNeedle(call.needle) /\ call.status = "resolved")
    => /\ Len(call.value) = Len(call.matchResults)
       /\ \A k \in 1..Len(call.matchResults) : call.value[k] = AbsoluteRegion(k)

\* A findAll resolved for two different results, the stronger match last, in
\* a search region away from the origin of the screen.
C21_Witness ==
    /\ call.op = "findAll" /\ call.status = "resolved"
    /\ call.params.searchRegion = Some(InnerRegion)
    /\ Len(call.matchResults) = 2 /\ Len(call.value) = 2
    /\ call.matchResults[1].confidence < call.matchResults[2].confidence

\* C22: a highlight that resolved resolves with the region it was given (the
\* value of the promise when given one), after exactly one call of
\* highlightScreenRegion, on that region, whatever config.autoHighlight is;
\* a highlight never makes a second call.
C22_HighlightReturnsItsRegion ==
    (call.op = "highlight")
    => /\ Len(highlightCalls) <= 1
       /\ call.status = "resolved"
            => /\ isRegion(call.arg[1].value)
               /\ call.value = <<call.arg[1].value>>
               /\ highlightCalls = <<HighlightOf(call.arg[1].value)>>
               /\ providerCalls = <<"highlightScreenRegion">>

\* A highlight of a promised region resolved while config.autoHighlight is on.
C22_Witness ==
    /\ call.op = "highlight" /\ call.status = "resolved"
    /\ call.arg[1].promise /\ call.arg[1].value = InnerRegion
    /\ config.autoHighlight

\* What capture (the whole screen, None) or captureRegion (its region) grabs.
GrabTarget ==
    IF call.op = "capture" THEN None ELSE Some(call.arg[1].value)
GrabbedImage ==
    ScreenImage(IF call.op = "capture" THEN Screen ELSE call.arg[1].value)

\* C23: a capture / captureRegion that resolved has grabbed exactly once (the
\* whole screen, respectively the region it was given), has called store
\* exactly once, with the grabbed image and the generated output path, and
\* resolves with that path; when the grab failed or answered with something
\* that is no Image, store has not been called.
C23_CaptureStoresOnce ==
    (call.op \in {"capture", "captureRegion"})
    => /\ Len(call.grabs) <= 1 /\ Len(call.stores) <= 1
       /\ call.status = "resolved"
            => /\ call.grabs = <<GrabTarget>>
               /\ providerCalls = <<IF call.op = "capture" THEN "grabScreen"
                                    ELSE "grabScreenRegion", "imageWriter.store">>
               /\ call.stores = <<[image |-> GrabbedImage,
                                   path |-> generateOutputPath(call.file[1].fileName,
                                       [path |-> call.file[1].filePath,
                                        prefix |-> call.file[1].fileNamePrefix,
                                        postfix |-> call.file[1].fileNamePostfix,
                                        type |-> call.file[1].fileFormat])]>>
               /\ call.value = <<call.stores[1].path>>
       /\ call.failedAt \in {"grabScreen", "grabScreenRegion", "image"}
            => /\ call.stores = <<>>
               /\ Called({"imageWriter.store"}) = {}

\* A captureRegion of a promised region, with a prefix and a path, resolved.
C23_Witness ==
    /\ call.op = "captureRegion" /\ call.status = "resolved"
    /\ call.arg[1].promise /\ call.arg[1].value = InnerRegion
    /\ call.value = <<<<"out", "/", "pre_", "shot", ".", "png">>>>

\* C24: a find of a window query, once past its needle check, has called the
\* window finder's findMatch once and no other provider: no screenSize, no
\* grabScreenRegion and no highlight, config.autoHighlight never read; when
\* it resolves it has run the hooks of the needle in order, each to its end,
\* on the Window of the handle, and resolves with that Window.
C24_WindowFindSkipsTheScreen ==
    (call.op = "find" /\ isWindowQuery(call.needle) /\ call.pc # "awaitNeedle")
    => /\ providerCalls = <<"windowFinder.findMatch">>
       /\ highlightCalls = <<>>
       /\ call.autoHighlight = None
       /\ call.screenSize = None /\ call.searchRegion = None
       /\ call.status = "resolved"
            => /\ \E windowHandle \in WindowHandles :
                     /\ call.windows = <<Window(windowHandle)>>
                     /\ call.value = <<Window(windowHandle)>>
               /\ hookLog = HookRuns(call.possibleHooks)
               /\ HooksOf(call.needle) = call.hooksAtCall
                    => call.possibleHooks = call.hooksAtCall

\* A find of a window query resolved, with config.autoHighlight on, after
\* MaxHooks hooks.
C24_Witness ==
    /\ call.op = "find" /\ isWindowQuery(call.needle) /\ call.status = "resolved"
    /\ config.autoHighlight
    /\ Len(call.possibleHooks) = MaxHooks /\ Len(hookLog) = 2 * MaxHooks

\* A needle that is no Image, no text query and no window query.
Unsupported(n) == ~isImage(n) /\ ~isTextQuery(n) /\ ~isWindowQuery(n)
\* The validation error of the method for that needle.
NeedleError(method, n) ==
    Err(<<CASE method = "find" ->
                 "find requires an Image, a text query or a window query, but received "
            [] method = "findAll" ->
                 "findAll requires an Image, a text query or a window query, but received "
            [] method = "waitFor" ->
                 "waitFor requires an Image, a text query or a window query, but received "
            [] method = "on" ->
                 "on requires an Image, a text query or a window query, but received ",
          n.id>>)

MalformedArgument ==
    \/ /\ call.op \in {"highlight", "captureRegion", "grabRegion"}
       /\ ~isRegion(call.arg[1].value)
    \/ /\ call.op = "colorAt"
       /\ ~isPoint(call.arg[1].value)

\* C26: highlight, captureRegion and grabRegion given something that is no
\* Region, and colorAt given something that is no Point, make no provider
\* call (no grabScreen, grabScreenRegion, highlightScreenRegion, colorAt or
\* store) and, once they settle, have been rejected by their type check.
C26_MalformedArgumentBeforeProviders ==
    MalformedArgument
    => /\ providerCalls = <<>>
       /\ highlightCalls = <<>> /\ call.grabs = <<>> /\ call.stores = <<>>
       /\ call.pc = "settled"
            => call.status = "rejected" /\ call.failedAt \in {"region", "point"}

\* The call in progress is a find / findAll of an image or a text in a search
\* region that validateSearchRegion rejects.
SearchesInvalidRegion ==
    /\ call.op \in {"find", "findAll"} /\ RegionNeedle(call.needle)
    /\ call.params.searchRegion # None
    /\ InvalidSearchRegion(call.params.searchRegion[1], Screen)

\* C27 as claimed: a find / findAll in an invalid search region makes no
\* provider call at all, screenSize and grabScreenRegion included, and fails
\* by the validation.
C27_InvalidRegionBeforeAnyProvider ==
    SearchesInvalidRegion
    => /\ providerCalls = <<>>
       /\ call.status = "rejected" => call.failedAt = "validate"

\* C27, amended: a find / findAll in an invalid search region never calls a
\* finder and never resolves; when the validation rejects it, screenSize and
\* grabScreenRegion, of that very region, are the calls that have been made.
C27_InvalidRegionBeforeAnyFinder ==
    SearchesInvalidRegion
    => /\ Called(FinderCalls) = {}
       /\ call.status # "resolved"
       /\ call.status = "rejected"
            => call.failedAt \in {"screenSize", "grabScreenRegion", "validate"}
       /\ call.failedAt = "validate"
            => /\ providerCalls = <<"screenSize", "grabScreenRegion">>
               /\ call.searchRegion = call.params.searchRegion
               /\ call.matchRequest[1].haystack = ImageOf(call.params.searchRegion[1])
               /\ IsWrappedFor(call.error, call.needle.id)

\* A findAll rejected by the validation of a search region that leaves the
\* screen, after the grab of that region.
C27_Witness ==
    /\ call.op = "findAll" /\ call.status = "rejected" /\ call.failedAt = "validate"
    /\ call.params.searchRegion = Some(OutsideRegion)
    /\ providerCalls = <<"screenSize", "grabScreenRegion">>

\* The waitFor in progress searches in a region that validateSearchRegion rejects.
WaitsInvalidRegion ==
    /\ wait.pc \notin {"idle", "awaitNeedle"}
    /\ wait.params.searchRegion # None
    /\ InvalidSearchRegion(wait.params.searchRegion[1], Screen)

\* C28 as claimed: once an attempt of waitFor has failed by the validation of
\* the search region, waitFor starts no further attempt.
C28_ValidationNotRetried ==
    [][(wait.pc # "idle" /\ call.failedAt = "validate")
       => wait'.attempts <= wait.attempts]_vars

\* C28, amended: a waitFor in an invalid search region never calls a finder
\* and never resolves, and it ends by the timeout or the abort only; while
\* it polls, the failure of an attempt by the validation arms the retry
\* after updateIntervalMs as any other failure does, and the retry is a new
\* find with the same needle and params.
C28_ValidationIsRetried ==
    /\ [](WaitsInvalidRegion
          => /\ Called(FinderCalls) = {}
             /\ wait.successes = 0
             /\ wait.status # "resolved"
             /\ wait.status = "rejected" => wait.outcome \in {"timedOut", "aborted"})
    /\ [][/\ (/\ WaitsInvalidRegion /\ wait.pc = "polling" /\ wait'.pc = "polling"
              /\ call.failedAt = "validate"
              /\ wait'.completed = wait.completed + 1)
             => wait'.retryAt = Some(now + wait.updateIntervalMs)
          /\ (/\ WaitsInvalidRegion /\ call.failedAt = "validate"
              /\ wait'.attempts = wait.attempts + 1)
             => /\ call'.op = "find" /\ call'.pc = "awaitNeedle"
                /\ call'.needle = wait.needle /\ call'.params = wait.params]_vars

\* A waitFor whose first attempt failed by the validation and whose second
\* attempt has failed by it again.
C28_Witness ==
    /\ WaitsInvalidRegion /\ wait.pc = "polling"
    /\ wait.attempts = 2 /\ wait.completed = 2
    /\ call.failedAt = "validate"
    /\ wait.retryAt # None

\* C29: a find / findAll calls a finder (findMatch, findMatches or the window
\* finder) at most once: a call that resolved, or that the finder rejected,
\* has called it exactly once and is settled.
C29_FinderCalledAtMostOnce ==
    (call.op \in {"find", "findAll"})
    => /\ Cardinality(Called(FinderCalls)) <= 1
       /\ call.status = "resolved" => Cardinality(Called(FinderCalls)) = 1
       /\ call.failedAt \in {"finder", "windowFinder"}
            => /\ Cardinality(Called(FinderCalls)) = 1
               /\ call.pc = "settled" /\ call.status = "rejected"

\* A find of an image that the finder rejected.
C29_Witness ==
    /\ call.op = "find" /\ isImage(call.needle)
    /\ call.failedAt = "finder" /\ call.status = "rejected"
    /\ Cardinality(Called(FinderCalls)) = 1

\* C30: whatever the caller does to config.confidence and whenever, the
\* minMatch of a find / findAll is params.confidence when the call was given
\* one, else config.confidence as it is when the call, its needle resolved,
\* works out its parameters; it is the confidence of the call's MatchRequest
\* and does not change during the call.
C30_ConfidenceReadPerCall ==
    /\ [](call.matchRequest # None
          => /\ call.matchRequest[1].confidence = call.minMatch[1]
             /\ call.params.confidence # None
                  => call.matchRequest[1].confidence = call.params.confidence[1])
    /\ [][/\ (call.minMatch = None /\ call'.minMatch # None)
             => call'.minMatch = Some(Coalesce(call'.params.confidence, config.confidence))
          /\ (call.minMatch # None /\ call'.pc # "idle" /\ call'.pc # "awaitNeedle")
             => call'.minMatch = call.minMatch]_vars

\* A findAll without params.confidence has built its MatchRequest with the
\* config.confidence it found, one the caller had set and has changed since.
C30_Witness ==
    /\ call.op = "findAll" /\ call.params.confidence = None
    /\ call.matchRequest # None
    /\ call.matchRequest[1].confidence = 90
    /\ config.confidence = DefaultConfidence

\* C31: a find of a colour query, once past its needle check, has dispatched
\* the query to the colour finder, and when it settles it has resolved with
\* a Point.
C31_ColorQueryFindsAPoint ==
    (call.op = "find" /\ call.needle.kind = "color" /\ call.pc # "awaitNeedle")
    => /\ Called({"colorFinder.findMatch"}) # {}
       /\ call.pc = "settled"
            => /\ call.status = "resolved"
               /\ Len(call.value) = 1
               /\ isPoint(call.value[1])

\* A confidence in (0, 1], in percent.
InConfidenceRange(c) == c > 0 /\ c <= 100
\* The call in progress has handed its MatchRequest to a finder.
Dispatched ==
    /\ call.op \in {"find", "findAll"} /\ RegionNeedle(call.needle)
    /\ Called(FinderCalls) # {}

\* C32 as claimed: the confidence of every MatchRequest handed to a finder
\* lies in (0, 1], whatever the caller has set.
C32_ConfidenceInRange ==
    Dispatched => InConfidenceRange(call.matchRequest[1].confidence)

\* C32, amended: the confidence of a MatchRequest handed to a finder is
\* params.confidence when the call was given one, else a value that
\* config.confidence has held, unchanged: it lies in (0, 1] exactly when
\* that value does.
C32_ConfidencePassedThrough ==
    Dispatched
    => LET c == call.matchRequest[1].confidence
       IN /\ c \in AnyConfidences \cup {DefaultConfidence}
          /\ call.params.confidence # None
               => /\ c = call.params.confidence[1]
                  /\ InConfidenceRange(c) <=> InConfidenceRange(call.params.confidence[1])
          /\ call.params.confidence = None
               => /\ c = call.minMatch[1]
                  /\ c # DefaultConfidence => c \in AnyConfidences

\* A find handed its finder a request with a confidence above 1, taken from
\* config.confidence.
C32_Witness ==
    /\ Dispatched /\ call.op = "find"
    /\ call.params.confidence = None
    /\ call.matchRequest[1].confidence = 150

\* C33: a find runs hooks only once it has its match, and resolves only when
\* every hook of the call (the list it read when the match arrived) has been
\* invoked and has completed: a find that failed before or at the finder, the
\* validation of the search region included, has invoked no hook, and one on
\* its way to the highlight or resolved has the full runs of all its hooks
\* behind it.
C33_HooksBetweenMatchAndResult ==
    (call.op = "find")
    => /\ call.failedAt \in {"needle", "screenSize", "grabScreenRegion", "validate",
                             "finder", "windowFinder"}
            => hookLog = <<>>
       /\ hookLog # <<>> => (call.matchResults # <<>> \/ call.windows # <<>>)
       /\ (call.status = "resolved" \/ call.pc = "highlight")
            => hookLog = HookRuns(call.possibleHooks)
       /\ call.pc \in {"hook", "windowHook"}
            => /\ call.status = "pending"
               /\ hookLog[Len(hookLog)].ev = "start"

\* A find of a needle with MaxHooks hooks that the finder rejected.
C33_Witness ==
    /\ call.op = "find" /\ call.failedAt = "finder"
    /\ Len(HooksOf(call.needle)) = MaxHooks
    /\ hookLog = <<>>

\* C34: every hook that find or findAll invokes for an image or a text is
\* called with the match result of the finder as the finder gave it: the
\* result of its index among the results of the call, one of the finder's
\* answers, whose location is relative to the search region: the region the
\* call returns for that result is this location translated by the origin of
\* the search region.
C34_HookGetsFinderResult ==
    (call.op \in {"find", "findAll"} /\ RegionNeedle(call.needle))
    => \A k \in 1..Len(hookLog) :
        LET j == hookLog[k].result
        IN /\ j \in 1..Len(call.matchResults)
           /\ hookLog[k].arg = call.matchResults[j]
           /\ hookLog[k].arg \in MatchResults
           /\ (call.status = "resolved" /\ call.resultRegions # <<>>)
                => call.resultRegions[j]
                     = ResultRegion(call.searchRegion[1], hookLog[k].arg.location)

\* A find in a search region away from the origin has resolved with a region
\* that differs from the location its hook was called with.
C34_Witness ==
    /\ call.op = "find" /\ call.status = "resolved" /\ isImage(call.needle)
    /\ call.searchRegion = Some(InnerRegion)
    /\ Len(hookLog) > 0
    /\ hookLog[1].arg.location # call.resultRegions[1]

\* C35: findAll invokes its hooks in hook-major order: with hooks h1..hN and
\* results r1..rM the p-th invocation is hook ((p - 1) div M) + 1 on result
\* ((p - 1) mod M) + 1, each invocation has ended (or thrown, which ends the
\* call) before the next is started, and so no hook is invoked on any result
\* before the hook ahead of it has completed on every result.
C35_FindAllHookMajor ==
    (call.op = "findAll" /\ hookLog # <<>>)
    => LET M == ResultsOf(call)
       IN /\ M > 0
          /\ \A k \in 1..Len(hookLog) :
               LET p == (k + 1) \div 2
               IN /\ hookLog[k].hook = call.possibleHooks[((p - 1) \div M) + 1]
                  /\ hookLog[k].result = ((p - 1) % M) + 1
                  /\ hookLog[k].ev = IF k % 2 = 1 THEN "start"
                                     ELSE IF k = Len(hookLog) /\ call.failedAt = "hook"
                                     THEN "throw" ELSE "end"
          /\ \A k, l \in 1..Len(hookLog) :
               (/\ hookLog[k].ev = "start" /\ hookLog[l].ev = "start"
                /\ \E a, b \in 1..Len(call.possibleHooks) :
                     a < b /\ hookLog[k].hook = call.possibleHooks[a]
                           /\ hookLog[l].hook = call.possibleHooks[b])
               => /\ k < l
                  /\ \A j \in 1..M : \E e \in 1..(l - 1) :
                        /\ hookLog[e].ev = "end"
                        /\ hookLog[e].hook = hookLog[k].hook
                        /\ hookLog[e].result = j

\* A findAll of an image with MaxHooks hooks and MaxResults results in its
\* last invocation: the last hook on the last result.
C35_Witness ==
    /\ call.op = "findAll" /\ call.pc = "hook" /\ isImage(call.needle)
    /\ Len(call.possibleHooks) = MaxHooks /\ Len(call.matchResults) = MaxResults
    /\ call.hook = MaxHooks /\ call.result = MaxResults
    /\ Len(hookLog) = 2 * MaxHooks * MaxResults - 1

\* C36: the hooks a find invokes are the list the registry holds for its
\* needle at the moment the finder returns. The step in which the finder
\* answers with a match fixes the hooks of the call to that list, so a hook
\* registered while the finder was in flight is among them; no step taken
\* while a hook runs changes them, whatever is registered meanwhile; and every
\* invocation of the call is of these hooks, in their order, all of them by
\* the time the find resolves.
C36_HooksReadWhenFinderReturns ==
    /\ [](call.op = "find"
            => /\ \A k \in 1..Len(hookLog) :
                    /\ (k + 1) \div 2 <= Len(call.possibleHooks)
                    /\ hookLog[k].hook = call.possibleHooks[(k + 1) \div 2]
               /\ call.status = "resolved" => Len(hookLog) = 2 * Len(call.possibleHooks))
    /\ [][/\ (/\ call.op = "find" /\ call.pc \in {"finder", "windowFinder"}
              /\ call'.pc # call.pc
              /\ call'.failedAt \notin {"finder", "windowFinder"})
             => call'.possibleHooks = HooksOf(call.needle)
          /\ (call.op = "find" /\ call.pc \in {"hook", "windowHook"})
             => call'.possibleHooks = call.possibleHooks]_vars

\* A find called with no hook registered that has resolved after invoking the
\* one hook registered while the finder was in flight, and not the one
\* registered after the finder had returned.
C36_Witness ==
    /\ call.op = "find" /\ call.status = "resolved"
    /\ call.hooksAtCall = <<>>
    /\ Len(call.possibleHooks) = 1
    /\ Len(HooksOf(call.needle)) = 2
    /\ SubSeq(HooksOf(call.needle), 1, 1) = call.possibleHooks
    /\ hookLog = HookRuns(call.possibleHooks)

\* The finds in progress: the one running and the one suspended.
CallsInProgress ==
    {[call EXCEPT !.other = None]} \cup {call.other[k] : k \in 1..Len(call.other)}

\* The search region a call was asked to search: the one in its params, or
\* the whole screen.
OwnSearchRegion(c) == Coalesce(c.params.searchRegion, Screen)

\* C37: of two finds in progress at once with different search regions, under
\* every interleaving of their steps, each searches its own region, resolves
\* with its own match translated by the origin of its own search region, and
\* has by then called each of its hooks with its own match result; every
\* invocation of a hook is with the match result of one of the two calls.
C37_ConcurrentFindsIndependent ==
    /\ \A c \in CallsInProgress :
        c.op = "find"
        => /\ c.searchRegion # None => c.searchRegion[1] = OwnSearchRegion(c)
           /\ c.matchRequest # None
                => c.matchRequest[1].haystack = ImageOf(OwnSearchRegion(c))
           /\ c.status = "resolved"
                => /\ c.value = <<ResultRegion(OwnSearchRegion(c), c.matchResults[1].location)>>
                   /\ \A i \in 1..Len(c.possibleHooks) :
                        \E k \in 1..Len(hookLog) :
                            /\ hookLog[k].ev = "end"
                            /\ hookLog[k].hook = c.possibleHooks[i]
                            /\ hookLog[k].arg = c.matchResults[1]
    /\ call.op = "find"
        => \A k \in 1..Len(hookLog) :
            \E c \in CallsInProgress :
                /\ c.matchResults # <<>>
                /\ hookLog[k].arg = c.matchResults[1]
                /\ \E i \in 1..Len(c.possibleHooks) : hookLog[k].hook = c.possibleHooks[i]

\* Two finds of the image, one in the inner region and one on the whole
\* screen, have resolved with different matches after their hooks ran
\* interleaved: the second call's hook started while the first call's ran.
C37_Witness ==
    /\ call.other # None
    /\ \A c \in CallsInProgress : c.op = "find" /\ c.status = "resolved" /\ isImage(c.needle)
    /\ \E a, b \in CallsInProgress :
        /\ a.params.searchRegion = Some(InnerRegion) /\ b.params.searchRegion = None
        /\ a.matchResults # b.matchResults
        /\ a.value # b.value
    /\ Len(hookLog) >= 4
    /\ hookLog[1].ev = "start" /\ hookLog[2].ev = "start"
    /\ hookLog[1].arg # hookLog[2].arg

\* C38: no step of find, findAll, waitFor, highlight, capture, captureRegion,
\* grab, grabRegion or colorAt, whether the operation succeeds or fails,
\* changes the hook registry or the config: the registry changes only in a
\* call of on, which adds one callback, and a step that moves an operation,
\* calls a provider, runs a hook or lets time pass leaves both as they are.
C38_OnlyOnChangesRegistry ==
    [][/\ (\/ call' # call \/ wait' # wait \/ signal' # signal \/ now' # now
           \/ providerCalls' # providerCalls \/ highlightCalls' # highlightCalls
           \/ hookLog' # hookLog)
          => (findHooks' = findHooks /\ config' = config)
       /\ findHooks' # findHooks
          => /\ Len(onLog') = Len(onLog) + 1
             /\ onError' = NoError
             /\ config' = config]_vars


\* A grab has resolved on an instance with MaxHooks hooks registered and the
\* automatic highlight switched on.
C38_Witness ==
    /\ call.op = "grab" /\ call.status = "resolved"
    /\ Registered = MaxHooks
    /\ config.autoHighlight
    /\ providerCalls = <<"grabScreen">>

\* C39 as stated: in no step taken after waitFor has settled is an attempt
\* started, a provider called or a hook invoked.
C39_NothingAfterSettled ==
    [][(wait.pc = "settled" /\ wait'.pc = "settled")
       => /\ wait'.attempts = wait.attempts
          /\ providerCalls' = providerCalls
          /\ highlightCalls' = highlightCalls
          /\ hookLog' = hookLog]_vars

\* C39, amended: once waitFor has settled no further attempt is started.
\* After a match nothing more is done for it; after a timeout or an abort the
\* attempt that was in flight at that moment runs on to its end, and every
\* provider call and hook invocation made after the settlement is a step of
\* that one attempt.
C39_NoAttemptAfterSettled ==
    [][(wait.pc = "settled" /\ wait'.pc = "settled")
       => /\ wait'.attempts = wait.attempts
          /\ call'.op = call.op /\ call'.needle = call.needle
          /\ wait.outcome \in {"matched", "needle"}
                => /\ call' = call
                   /\ providerCalls' = providerCalls
                   /\ highlightCalls' = highlightCalls
                   /\ hookLog' = hookLog
          /\ (\/ call' # call \/ providerCalls' # providerCalls
              \/ highlightCalls' # highlightCalls \/ hookLog' # hookLog)
                => /\ wait.outcome \in {"timedOut", "aborted"}
                   /\ wait.inFlight /\ wait.attempts = wait.completed + 1
                   /\ call.op = "find" /\ call.status = "pending"]_vars

\* waitFor was aborted while its first attempt awaited the needle, and that
\* attempt has since called the screen and the finder and started a hook.
C39_Witness ==
    /\ wait.pc = "settled" /\ wait.outcome = "aborted"
    /\ wait.abortPc = "awaitNeedle" /\ wait.attempts = 1 /\ wait.inFlight
    /\ call.op = "find" /\ call.pc = "hook"
    /\ Called({"imageFinder.findMatch"}) # {}
    /\ Len(hookLog) = 1

=============================================================================
